---- MODULE Spec2Model ----
(***************************************************************************)
(* Layout / Fragment algebra (Layout.cc) and the thread partitioning of    *)
(* parallel loops (loop_partition.cc).                                     *)
(*                                                                         *)
(* A PrimExpr is a postfix token sequence; a token is <<op, n>> with op    *)
(* one of "var", "const", "add", "mul", "floordiv", "floormod".  Variable  *)
(* n >= 1 is forward_var_[n]; variable 0 is the replication variable       *)
(* thread_replicate_.  Every IterVar of the sources is made by             *)
(* make_itervar (Range(0, dom)) or comes from a loop with min 0, so a      *)
(* domain is written as its extent.                                        *)
(***************************************************************************)
EXTENDS Integers, Sequences, FiniteSets, TLC

VARIABLES
  frags,      \* Fragment algebra: frags[1] the base Fragment, frags[k+1] the result of ops[k]
  ops,        \* Fragment algebra: the operations applied so far
  fstatus,    \* Fragment algebra: "ok", or "abort" once an ICHECK/CHECK failed
  gargs,      \* factory call: the arguments
  gout,       \* factory call: the Fragment returned
  gstatus,    \* factory call: "start", "done", or "abort" once an ICHECK failed
  gblock_k,   \* factory call: the block_k handed to makeGemmFragmentA / B
  goutA,      \* factory call: the Fragment makeGemmFragmentA returned
  gstatusA,   \* factory call: "start", "done" or "abort", of makeGemmFragmentA
  goutB,      \* factory call: the Fragment makeGemmFragmentB returned
  gstatusB,   \* factory call: "start", "done" or "abort", of makeGemmFragmentB
  sargs,      \* shared-memory layout: the factory called and its arguments
  sout,       \* shared-memory layout: the Layout returned
  sstatus,    \* shared-memory layout: "start", "done" or "abort"
  xargs,      \* xor: the function called and its arguments
  xout,       \* xor: the value of the expression returned
  xstatus,    \* xor: "start" or "done"
  ifrag,      \* Fragment inverse: the Fragment Inverse() is called on
  iinv,       \* Fragment inverse: the Layout FragmentNode::Inverse returned
  istatus,    \* Fragment inverse: "start", "done", or "abort" once an ICHECK/CHECK failed
  lay0,       \* Layout: the Layout constructed
  lay,        \* Layout: the Layout at hand, lay0 after lcount Inverse() calls
  lcount,     \* Layout: the number of Inverse() calls that returned
  lastcall,   \* Layout: the method called last
  lshape,     \* Layout: what the last OutputShape() returned
  lstatus,    \* Layout: "ok", or "abort" once an ICHECK/CHECK failed
  lvector,    \* Layout: what the last VectorSize() returned
  loop,       \* loop partition: the loop nest op, [nodes, store]
  num_thread, \* loop partition: the thread count handed to Partition
  loop_vars_, \* loop partition: LoopPartitioner::loop_vars_, as loop variables
  loop_layout,\* loop partition: the Fragment handed to PartitionLoop
  layout_by,  \* loop partition: "Partition" or "caller", who made loop_layout
  new_loop,   \* loop partition: the loop nest PartitionLoop returns
  ppc         \* loop partition: "start", "partitioned", "done" or "abort"

fvars == <<frags, ops, fstatus>>

gvars == <<gargs, gout, gstatus, gblock_k, goutA, gstatusA, goutB, gstatusB>>

svars == <<sargs, sout, sstatus>>

xvars == <<xargs, xout, xstatus>>

ivars == <<ifrag, iinv, istatus>>

lvars == <<lay0, lay, lcount, lastcall, lshape, lstatus, lvector>>

pvars == <<loop, num_thread, loop_vars_, loop_layout, layout_by, new_loop, ppc>>

vars == <<frags, ops, fstatus, gargs, gout, gstatus,
          gblock_k, goutA, gstatusA, goutB, gstatusB,
          sargs, sout, sstatus, xargs, xout, xstatus, ifrag, iinv, istatus,
          lay0, lay, lcount, lastcall, lshape, lstatus, lvector,
          loop, num_thread, loop_vars_, loop_layout, layout_by, new_loop, ppc>>

----------------------------------------------------------------------------
(* PrimExpr construction                                                   *)

Var(n) == << <<"var", n>> >>

Const(c) == << <<"const", c>> >>

Add(a, b) == a \o b \o << <<"add", 0>> >>

Mul(a, b) == a \o b \o << <<"mul", 0>> >>

FloorDiv(a, b) == a \o b \o << <<"floordiv", 0>> >>

FloorMod(a, b) == a \o b \o << <<"floormod", 0>> >>

(* Substitute(e, vmap): every variable in DOMAIN vmap replaced by its     *)
(* image; the tokens lo..hi of e are rewritten half by half                *)
RECURSIVE SubstituteFrom(_, _, _, _)
SubstituteFrom(e, lo, hi, vmap) ==
  IF lo > hi THEN <<>>
  ELSE IF lo = hi
  THEN (IF e[lo][1] = "var" /\ e[lo][2] \in DOMAIN vmap THEN vmap[e[lo][2]] ELSE <<e[lo]>>)
  ELSE SubstituteFrom(e, lo, (lo + hi) \div 2, vmap)
       \o SubstituteFrom(e, (lo + hi) \div 2 + 1, hi, vmap)

Substitute(e, vmap) == SubstituteFrom(e, 1, Len(e), vmap)

(* arith::Analyzer::Simplify rewrites an expression into one of the same   *)
(* value at every point of the bound domain; the value is all the model    *)
(* reads of an expression.                                                 *)
Simplify(e) == e

ApplyOp(op, a, b) ==
  CASE op = "add" -> a + b
    [] op = "mul" -> a * b
    [] op = "floordiv" -> a \div b
    [] op = "floormod" -> a % b

(* one token of e run on the operand stack *)
EvalStep(stack, t, env) ==
  IF t[1] = "var" THEN <<env[t[2]]>> \o stack
  ELSE IF t[1] = "const" THEN <<t[2]>> \o stack
  ELSE <<ApplyOp(t[1], stack[2], stack[1])>> \o Tail(Tail(stack))

(* the operand stack after the tokens lo..hi of e, run half by half, the   *)
(* first half to its end before the second                                 *)
RECURSIVE EvalFrom(_, _, _, _, _)
EvalFrom(e, lo, hi, stack, env) ==
  IF lo > hi THEN stack
  ELSE IF lo = hi THEN EvalStep(stack, e[lo], env)
  ELSE LET left == EvalFrom(e, lo, (lo + hi) \div 2, stack, env)
       IN IF Len(left) >= 0 THEN EvalFrom(e, (lo + hi) \div 2 + 1, hi, left, env)
          ELSE left

(* the value of e with variable n bound to env[n] *)
Eval(e, env) == EvalFrom(e, 1, Len(e), <<>>, env)[1]

----------------------------------------------------------------------------
(* Bound domains and integer bounds                                        *)

RECURSIVE Prod(_)
Prod(s) == IF s = <<>> THEN 1 ELSE s[1] * Prod(Tail(s))

RECURSIVE StridesFrom(_, _, _)
StridesFrom(exts, k, acc) ==
  IF k > Len(exts) THEN <<>> ELSE <<acc>> \o StridesFrom(exts, k + 1, acc * exts[k])

(* every binding of forward_var_ (1..Len(exts)) and of the replication     *)
(* variable (0, extent rep) inside its Range                               *)
Envs(exts, rep) ==
  LET n == Len(exts)
      st == StridesFrom(exts, 1, rep)
  IN { [i \in 0..n |-> IF i = 0 THEN k % rep ELSE (k \div st[i]) % exts[i]] :
         k \in 0..(rep * Prod(exts) - 1) }

SetMin(S) == CHOOSE x \in S : \A y \in S : x <= y

SetMax(S) == CHOOSE x \in S : \A y \in S : y <= x

(* arith::Analyzer::int_set(e) under the bindings of UpdateAnalyzer: the   *)
(* integer bounds <<min, max>> of e over the bound domain                  *)
IntSet(e, exts, rep) ==
  LET vals == { Eval(e, p) : p \in Envs(exts, rep) }
  IN <<SetMin(vals), SetMax(vals)>>

----------------------------------------------------------------------------
(* Layout and Fragment: a Layout is [forward_var, forward_index]; a        *)
(* Fragment adds forward_thread and thread_replicate (its extent)          *)

InputDim(l) == Len(l.forward_var)

OutputDim(l) == Len(l.forward_index)

InputShape(l) == l.forward_var

ReplicateExtent(f) == f.thread_replicate

(* the extent of the replication variable UpdateAnalyzer binds: a Layout   *)
(* binds none                                                              *)
BoundReplicate(l) == IF "thread_replicate" \in DOMAIN l THEN l.thread_replicate ELSE 1

Layout(forward_var, forward_index) ==
  [forward_var |-> forward_var,
   forward_index |-> [i \in 1..Len(forward_index) |-> Simplify(forward_index[i])]]

(* Fragment::Fragment with a non-empty forward_index (every caller here    *)
(* passes one)                                                             *)
Fragment(forward_var, forward_index, forward_thread, thread_replicate) ==
  [forward_var |-> forward_var,
   forward_index |-> [i \in 1..Len(forward_index) |-> Simplify(forward_index[i])],
   forward_thread |-> Simplify(forward_thread),
   thread_replicate |-> thread_replicate]

(* OutputShape without its CHECK *)
OutputShapeUnchecked(l) == TRUE

(* CHECK(is_one(ist.min())) of OutputShape, for every output expression *)
OutputShapeCheck(l) ==
  \A i \in 1..OutputDim(l) :
     IntSet(Add(l.forward_index[i], Const(1)), l.forward_var, BoundReplicate(l))[1] = 1

OutputShape(l) ==
  [i \in 1..OutputDim(l) |->
     IntSet(Add(l.forward_index[i], Const(1)), l.forward_var, BoundReplicate(l))[2]]

(* CHECK(is_one(ist.min())) of ThreadExtent *)
ThreadExtentCheck(f) ==
  IntSet(Add(f.forward_thread, Const(1)), f.forward_var, f.thread_replicate)[1] = 1

ThreadExtent(f) ==
  IntSet(Add(f.forward_thread, Const(1)), f.forward_var, f.thread_replicate)[2]

(* Forward(vars): the output expressions with forward_var_[i] := vars[i] *)
Forward(l, vs) ==
  IF vs = <<>> THEN l.forward_index
  ELSE [k \in 1..OutputDim(l) |->
          Substitute(l.forward_index[k], [i \in 1..InputDim(l) |-> vs[i]])]

(* RepeatsIndex without the update of repeat_stride *)
RECURSIVE RepeatsIndexNoStride(_, _, _, _, _)
RepeatsIndexNoStride(order, shape, repeats, repeats_index, repeat_stride) ==
  IF order = <<>> THEN repeats_index
  ELSE LET i == order[1] IN
       RepeatsIndexNoStride(Tail(order), shape, repeats,
                            Add(repeats_index,
                                Mul(Const(repeat_stride), FloorDiv(Var(i), Const(shape[i])))),
                            repeat_stride)

(* the repeat index with the dims taken from the far end of the order *)
RECURSIVE RepeatsIndexHigherDimFirst(_, _, _, _, _)
RepeatsIndexHigherDimFirst(order, shape, repeats, repeats_index, repeat_stride) ==
  IF order = <<>> THEN repeats_index
  ELSE LET i == order[Len(order)] IN
       RepeatsIndexHigherDimFirst(SubSeq(order, 1, Len(order) - 1), shape, repeats,
                                  Add(repeats_index,
                                      Mul(Const(repeat_stride),
                                          FloorDiv(Var(i), Const(shape[i])))),
                                  repeat_stride * repeats[i])

(* the repeat index of Repeat: the loop over dims, in the order given *)
RECURSIVE RepeatsIndex(_, _, _, _, _)
RepeatsIndex(order, shape, repeats, repeats_index, repeat_stride) ==
  IF order = <<>> THEN repeats_index
  ELSE LET i == order[1] IN
       RepeatsIndex(Tail(order), shape, repeats,
                    Add(repeats_index,
                        Mul(Const(repeat_stride), FloorDiv(Var(i), Const(shape[i])))),
                    repeat_stride * repeats[i])

(* the ICHECKs Repeat passes through *)
RepeatCheck(f, repeats, repeat_on_thread) ==
  /\ Len(repeats) = InputDim(f)
  /\ IF repeat_on_thread THEN ThreadExtentCheck(f)
     ELSE OutputDim(f) = 1 /\ OutputShapeCheck(f)

Repeat(f, repeats, repeat_on_thread, lower_dim_first) ==
  LET n == InputDim(f)
      new_forward_var == [i \in 1..n |-> f.forward_var[i] * repeats[i]]
      vmap == [i \in 1..n |-> FloorMod(Var(i), Const(InputShape(f)[i]))]
      order == IF lower_dim_first THEN [k \in 1..n |-> n + 1 - k] ELSE [k \in 1..n |-> k]
      repeats_index == RepeatsIndex(order, InputShape(f), repeats, Const(0), 1)
  IN IF repeat_on_thread
     THEN Fragment(new_forward_var,
                   [k \in 1..OutputDim(f) |-> Substitute(f.forward_index[k], vmap)],
                   Add(Substitute(f.forward_thread, vmap),
                       Mul(Const(ThreadExtent(f)), repeats_index)),
                   f.thread_replicate)
     ELSE Fragment(new_forward_var,
                   <<Add(Substitute(f.forward_index[1], vmap),
                         Mul(Const(OutputShape(f)[1]), repeats_index))>>,
                   Substitute(f.forward_thread, vmap),
                   f.thread_replicate)

ReplicateCheck(f, repeats) == repeats >= 1 /\ ThreadExtentCheck(f)

(* Replicate with the copies one ReplicateExtent apart on the thread axis *)
ReplicateByReplicateExtent(f, repeats) ==
  LET vmap == (0 :> FloorMod(Var(0), Const(ReplicateExtent(f))))
  IN Fragment(f.forward_var, f.forward_index,
              Add(Substitute(f.forward_thread, vmap),
                  Mul(Const(ReplicateExtent(f)),
                      FloorDiv(Var(0), Const(ReplicateExtent(f))))),
              ReplicateExtent(f) * repeats)

Replicate(f, repeats) ==
  LET vmap == (0 :> FloorMod(Var(0), Const(ReplicateExtent(f))))
  IN Fragment(f.forward_var, f.forward_index,
              Add(Substitute(f.forward_thread, vmap),
                  Mul(Const(ThreadExtent(f)), FloorDiv(Var(0), Const(ReplicateExtent(f))))),
              ReplicateExtent(f) * repeats)

RECURSIVE ZeroAwareGCD(_, _)
ZeroAwareGCD(a, b) == IF b = 0 THEN a ELSE ZeroAwareGCD(b, a % b)

DeReplicateCheck(f) == OutputDim(f) = 1 /\ OutputShapeCheck(f)

(* DeReplicateFactor without the gcd: the whole replication is folded *)
DeReplicateFactorNoGCD(f) == ReplicateExtent(f)

(* factor of DeReplicate: every extent of the model is a constant *)
DeReplicateFactor(f) == ZeroAwareGCD(ReplicateExtent(f), OutputShape(f)[1])

(* DeReplicate that leaves the replication extent as it was *)
DeReplicateKeepsExtent(f) ==
  LET factor == DeReplicateFactor(f)
      vmap == (0 :> Add(Mul(Var(0), Const(factor)),
                        FloorMod(f.forward_index[1], Const(factor))))
  IN IF factor = 1 THEN f
     ELSE Fragment(f.forward_var,
                   <<FloorDiv(f.forward_index[1], Const(factor))>>,
                   Substitute(f.forward_thread, vmap),
                   ReplicateExtent(f))

DeReplicate(f) ==
  LET factor == DeReplicateFactor(f)
      vmap == (0 :> Add(Mul(Var(0), Const(factor)),
                        FloorMod(f.forward_index[1], Const(factor))))
  IN IF factor = 1 THEN f
     ELSE Fragment(f.forward_var,
                   <<FloorDiv(f.forward_index[1], Const(factor))>>,
                   Substitute(f.forward_thread, vmap),
                   ReplicateExtent(f) \div factor)

----------------------------------------------------------------------------
(* Register-tile fragment factories                                        *)

(* makeGemmFragment8x8 with four columns, not two, of a row on one thread *)
makeGemmFragment8x8FourPerThread ==
  Fragment(<<8, 8>>,
           <<FloorMod(Var(2), Const(4))>>,
           Add(FloorDiv(Var(2), Const(4)), Mul(Const(2), Var(1))),
           1)

makeGemmFragment8x8 ==
  Fragment(<<8, 8>>,
           <<FloorMod(Var(2), Const(2))>>,
           Add(FloorDiv(Var(2), Const(2)), Mul(Const(4), Var(1))),
           1)

makeGemmFragment8x8Transposed ==
  Fragment(<<8, 8>>,
           <<FloorMod(Var(1), Const(2))>>,
           Add(FloorDiv(Var(1), Const(2)), Mul(Const(4), Var(2))),
           1)

(* the ICHECKs at the head of makeGemmFragmentC and makeGemmFragmentC_F64 *)
makeGemmFragmentCCheck(block_m, block_n, warp_m, warp_n) ==
  /\ block_m % warp_m = 0
  /\ block_n % warp_n = 0
  /\ warp_m % 16 = 0
  /\ warp_n % 16 = 0

makeGemmFragmentC_F64(block_m, block_n, warp_m, warp_n) ==
  LET base_layout == makeGemmFragment8x8
      warp_layout == Repeat(base_layout, <<block_m \div warp_m, block_n \div warp_n>>,
                            TRUE, FALSE)
      block_layout == Repeat(warp_layout, <<warp_m \div 8, warp_n \div 8>>, FALSE, FALSE)
  IN block_layout

(* Repeat({2, 1}, false) takes the declared default lower_dim_first = true *)
makeGemmFragmentC(block_m, block_n, warp_m, warp_n, element_size) ==
  IF element_size = 64 THEN makeGemmFragmentC_F64(block_m, block_n, warp_m, warp_n)
  ELSE LET base_layout == Repeat(makeGemmFragment8x8, <<2, 1>>, FALSE, TRUE)
           warp_layout == Repeat(base_layout, <<block_m \div warp_m, block_n \div warp_n>>,
                                 TRUE, FALSE)
           block_layout == Repeat(warp_layout, <<warp_m \div 16, warp_n \div 8>>,
                                  FALSE, FALSE)
       IN block_layout

(* the ICHECKs at the head of makeGemmFragmentA *)
makeGemmFragmentACheck(block_m, block_n, block_k, warp_m, warp_n) ==
  /\ block_m % warp_m = 0
  /\ block_n % warp_n = 0
  /\ warp_m % 16 = 0
  /\ block_k % 16 = 0

(* Repeat({block_m / warp_m, 1}, true) takes the declared default          *)
(* lower_dim_first = true                                                  *)
makeGemmFragmentA(block_m, block_n, block_k, warp_m, warp_n) ==
  LET base_layout == Repeat(makeGemmFragment8x8, <<2, 2>>, FALSE, FALSE)
      warp_layout == Replicate(Repeat(base_layout, <<block_m \div warp_m, 1>>, TRUE, TRUE),
                               block_n \div warp_n)
      block_layout == Repeat(warp_layout, <<warp_m \div 16, block_k \div 16>>,
                             FALSE, FALSE)
  IN block_layout

(* the ICHECKs at the head of makeGemmFragmentB, and ICHECK(repeats >= 1)  *)
(* of the Replicate it calls; block_m and block_n are divided unchecked    *)
makeGemmFragmentBCheck(block_m, block_n, block_k, warp_m, warp_n) ==
  /\ warp_n % 8 = 0
  /\ block_k % 16 = 0
  /\ block_m \div warp_m >= 1

(* makeGemmFragmentB with the warp tile repeated along n before it is      *)
(* replicated over the warps along m, the order makeGemmFragmentA uses     *)
makeGemmFragmentBRepeatFirst(block_m, block_n, block_k, warp_m, warp_n) ==
  LET base_layout == Repeat(makeGemmFragment8x8Transposed, <<2, 1>>, FALSE, FALSE)
      warp_layout == Replicate(Repeat(base_layout, <<1, block_n \div warp_n>>, TRUE, TRUE),
                               block_m \div warp_m)
      block_layout == Repeat(warp_layout, <<block_k \div 16, warp_n \div 8>>,
                             FALSE, TRUE)
  IN block_layout

makeGemmFragmentB(block_m, block_n, block_k, warp_m, warp_n) ==
  LET base_layout == Repeat(makeGemmFragment8x8Transposed, <<2, 1>>, FALSE, FALSE)
      warp_layout == Repeat(Replicate(base_layout, block_m \div warp_m),
                            <<1, block_n \div warp_n>>, TRUE, TRUE)
      block_layout == Repeat(warp_layout, <<block_k \div 16, warp_n \div 8>>,
                             FALSE, TRUE)
  IN block_layout

----------------------------------------------------------------------------
(* Swizzles and the shared-memory Layout factories; i is forward_var_[1]   *)
(* (extent stride), j is forward_var_[2] (extent continuous)               *)

(* the sum of the two bits without the FloorMod *)
xor2x2NoFloorMod(i, j) == Add(i, j)

xor2x2(i, j) == FloorMod(Add(i, j), Const(2))

(* the exclusive or of the low bits alone *)
xor4x4LowBit(i, j) == xor2x2(FloorMod(i, Const(2)), FloorMod(j, Const(2)))

xor4x4(i, j) ==
  LET i0 == FloorMod(i, Const(2))
      j0 == FloorMod(j, Const(2))
      i1 == FloorDiv(i, Const(2))
      j1 == FloorDiv(j, Const(2))
  IN Add(Mul(Const(2), xor2x2(i1, j1)), xor2x2(i0, j0))

xor8x8(i, j) ==
  LET i0 == FloorMod(i, Const(2))
      j0 == FloorMod(j, Const(2))
      i1 == FloorDiv(i, Const(2))
      j1 == FloorDiv(j, Const(2))
  IN Add(Mul(Const(2), xor4x4(i1, j1)), xor2x2(i0, j0))

(* the ICHECKs of makeGemmABLayoutHalfBank *)
makeGemmABLayoutHalfBankCheck(stride, continuous, element_size) ==
  /\ stride % 8 = 0
  /\ continuous % ((128 \div element_size) * 4) = 0

makeGemmABLayoutHalfBank(stride, continuous, element_size) ==
  LET vector_size == 128 \div element_size
      i == Var(1)
      j == Var(2)
      ts == FloorDiv(i, Const(8))
      s == FloorMod(i, Const(8))
      tc == FloorDiv(FloorDiv(j, Const(vector_size)), Const(4))
      c == FloorMod(FloorDiv(j, Const(vector_size)), Const(4))
      vec == FloorMod(j, Const(vector_size))
      c_swizzle == xor4x4(c, FloorDiv(s, Const(2)))
      index == Add(vec, Mul(Add(c_swizzle, Mul(s, Const(4))), Const(vector_size)))
  IN Layout(<<stride, continuous>>, <<tc, ts, index>>)

(* the ICHECKs of makeGemmABLayoutFullBank *)
makeGemmABLayoutFullBankCheck(stride, continuous, element_size) ==
  /\ stride % 8 = 0
  /\ continuous % ((128 \div element_size) * 8) = 0

makeGemmABLayoutFullBank(stride, continuous, element_size) ==
  LET vector_size == 128 \div element_size
      i == Var(1)
      j == Var(2)
      ts == FloorDiv(i, Const(8))
      s == FloorMod(i, Const(8))
      tc == FloorDiv(FloorDiv(j, Const(vector_size)), Const(8))
      c == FloorMod(FloorDiv(j, Const(vector_size)), Const(8))
      vec == FloorMod(j, Const(vector_size))
      c_swizzle == xor8x8(c, s)
      index == Add(vec, Mul(Add(c_swizzle, Mul(s, Const(8))), Const(vector_size)))
  IN Layout(<<stride, continuous>>, <<tc, ts, index>>)

(* makeGemmABLayoutF64_Kinner and makeGemmABLayoutF64_Kouter hold no       *)
(* ICHECK                                                                  *)
makeGemmABLayoutF64Check(stride, continuous) == TRUE

makeGemmABLayoutF64_Kinner(stride, continuous) ==
  LET i == Var(1)
      j == Var(2)
      tc == FloorDiv(j, Const(16))
      ts == FloorDiv(i, Const(4))
      c == FloorMod(j, Const(16))
      s == FloorMod(i, Const(4))
      swizzled_c == Add(Mul(FloorDiv(c, Const(4)), Const(4)),
                        xor4x4(FloorMod(c, Const(4)), s))
      index == Add(swizzled_c, Mul(s, Const(16)))
  IN Layout(<<stride, continuous>>, <<tc, ts, index>>)

makeGemmABLayoutF64_Kouter(stride, continuous) ==
  LET i == Var(1)
      j == Var(2)
      tc == FloorDiv(j, Const(16))
      ts == FloorDiv(i, Const(4))
      c == FloorMod(j, Const(16))
      s == FloorMod(i, Const(4))
      swizzled_c == Add(FloorMod(c, Const(4)),
                        Mul(xor4x4(FloorDiv(c, Const(4)), s), Const(4)))
      index == Add(swizzled_c, Mul(s, Const(16)))
  IN Layout(<<stride, continuous>>, <<tc, ts, index>>)

(* makeGemmABLayoutPadded holds no ICHECK *)
makeGemmABLayoutPaddedCheck(stride, continuous, element_size) == TRUE

makeGemmABLayoutPadded(stride, continuous, element_size) ==
  LET i == Var(1)
      j == Var(2)
      padded == IF (element_size * continuous) % 256 = 0
                THEN continuous + 128 \div element_size
                ELSE continuous
  IN Layout(<<stride, continuous>>, <<Add(Mul(i, Const(padded)), j)>>)

(* the ICHECK of MakeGemmVoltaABLayoutCrosswise *)
MakeGemmVoltaABLayoutCrosswiseCheck(stride, continuous) ==
  stride % 32 = 0 /\ continuous % 32 = 0

MakeGemmVoltaABLayoutCrosswise(stride, continuous) ==
  LET i == Var(1)
      j == Var(2)
      vec_contiguous_idx == FloorDiv(j, Const(4))
      vec_strided_within_tile == FloorMod(vec_contiguous_idx, Const(8))
      bit2 == FloorMod(Add(Add(FloorDiv(FloorMod(i, Const(32)), Const(16)),
                               FloorDiv(FloorMod(i, Const(16)), Const(8))),
                           FloorDiv(vec_strided_within_tile, Const(4))),
                       Const(2))
      bit1 == xor2x2(FloorDiv(FloorMod(i, Const(8)), Const(4)),
                     FloorDiv(FloorMod(vec_strided_within_tile, Const(4)), Const(2)))
      permuted_vec_contiguous ==
        Add(Add(Add(Mul(FloorDiv(i, Const(16)), Const(16)),
                    Mul(FloorMod(i, Const(4)), Const(4))),
                Mul(bit2, Const(2))),
            bit1)
      offset == Add(Add(FloorMod(j, Const(4)), Mul(permuted_vec_contiguous, Const(4))),
                    Mul(Mul(vec_contiguous_idx, Const(stride)), Const(4)))
  IN Layout(<<stride, continuous>>, <<offset>>)

(* the ICHECK of MakeGemmVoltaALayoutCongruous and of                      *)
(* MakeGemmVoltaBLayoutCongruous                                           *)
MakeGemmVoltaLayoutCongruousCheck(stride, continuous) ==
  stride % 4 = 0 /\ continuous % 64 = 0

MakeGemmVoltaALayoutCongruous(stride, continuous) ==
  LET i == Var(1)
      j == Var(2)
      vec_contiguous_idx == FloorDiv(j, Const(8))
      vec_strided_idx == i
      tile_contiguous_idx == FloorDiv(vec_contiguous_idx, Const(8))
      tile_strided_idx == FloorDiv(vec_strided_idx, Const(4))
      tile_contiguous_residual == FloorMod(vec_contiguous_idx, Const(8))
      tile_strided_residual == FloorMod(vec_strided_idx, Const(4))
      permuted_strided_within_tile == FloorDiv(tile_contiguous_residual, Const(2))
      permuted_contiguous_within_tile ==
        Add(Mul(FloorMod(tile_contiguous_residual, Const(2)), Const(4)),
            xor4x4(tile_strided_residual, permuted_strided_within_tile))
      element_strided == Add(permuted_strided_within_tile,
                             Mul(tile_strided_idx, Const(4)))
      element_contiguous ==
        Add(FloorMod(j, Const(8)),
            Mul(Add(permuted_contiguous_within_tile, Mul(tile_contiguous_idx, Const(8))),
                Const(8)))
      offset == Add(Mul(element_strided, Const(continuous)), element_contiguous)
  IN Layout(<<stride, continuous>>, <<offset>>)

MakeGemmVoltaBLayoutCongruous(stride, continuous) ==
  LET i == Var(1)
      j == Var(2)
      vec_contiguous_idx == FloorDiv(j, Const(8))
      vec_strided_idx == i
      tile_contiguous_idx == FloorDiv(vec_contiguous_idx, Const(8))
      tile_strided_idx == FloorDiv(vec_strided_idx, Const(4))
      tile_contiguous_residual == FloorMod(vec_contiguous_idx, Const(8))
      tile_strided_residual == FloorMod(vec_strided_idx, Const(4))
      permuted_strided_within_tile == FloorMod(tile_contiguous_residual, Const(4))
      permuted_contiguous_within_tile ==
        Add(Mul(FloorDiv(tile_contiguous_residual, Const(4)), Const(4)),
            xor4x4(tile_strided_residual, permuted_strided_within_tile))
      element_strided == Add(permuted_strided_within_tile,
                             Mul(tile_strided_idx, Const(4)))
      element_contiguous ==
        Add(FloorMod(j, Const(8)),
            Mul(Add(permuted_contiguous_within_tile, Mul(tile_contiguous_idx, Const(8))),
                Const(8)))
      offset == Add(Mul(element_strided, Const(continuous)), element_contiguous)
  IN Layout(<<stride, continuous>>, <<offset>>)

----------------------------------------------------------------------------
(* Fragment algebra: a base Fragment and the operations applied to it      *)

MaxOps == 2

MaxPoints == 32

NoFragment == <<>>

(* the variables of a part of the model that a specification leaves out *)
FragIdle == frags = <<>> /\ ops = <<>> /\ fstatus = "idle"

GemmIdle ==
  /\ gargs = <<>> /\ gout = NoFragment /\ gstatus = "idle"
  /\ gblock_k = 0 /\ goutA = NoFragment /\ gstatusA = "idle"
  /\ goutB = NoFragment /\ gstatusB = "idle"

SharedIdle == sargs = <<>> /\ sout = NoFragment /\ sstatus = "idle"

XorIdle == xargs = <<>> /\ xout = 0 /\ xstatus = "idle"

InverseIdle == ifrag = NoFragment /\ iinv = NoFragment /\ istatus = "idle"

NoShape == <<>>

LayoutIdle ==
  /\ lay0 = NoFragment /\ lay = NoFragment /\ lcount = 0
  /\ lastcall = "none" /\ lshape = NoShape /\ lstatus = "idle" /\ lvector = 0

NoLoop == [nodes |-> <<>>, store |-> <<>>]

LoopIdle ==
  /\ loop = NoLoop /\ num_thread = 0 /\ loop_vars_ = <<>> /\ loop_layout = NoFragment
  /\ layout_by = "none" /\ new_loop = NoLoop /\ ppc = "idle"

(* base Fragments handed to Fragment::Fragment *)
FragmentInputs ==
  { Fragment(<<4>>, <<FloorDiv(Var(1), Const(2))>>, FloorMod(Var(1), Const(2)), 1),
    Fragment(<<2, 4>>, <<FloorMod(Var(2), Const(2))>>,
             Add(FloorDiv(Var(2), Const(2)), Mul(Const(2), Var(1))), 1),
    Fragment(<<4, 2>>, <<FloorMod(Var(1), Const(2))>>,
             Add(FloorDiv(Var(1), Const(2)), Mul(Const(2), Var(2))), 1),
    Fragment(<<2, 2>>, <<Var(2)>>, Var(1), 1),
    Fragment(<<2, 2>>, <<Var(2)>>, Add(Var(1), Mul(Const(2), Var(0))), 2),
    Fragment(<<3>>, <<Var(1)>>, Var(0), 3),
    Fragment(<<2, 2>>, <<Var(1), Var(2)>>, Var(0), 2) }

RepeatCounts == {1, 2}

ReplicateCounts == {1, 2, 3}

NoRepeats == <<>>

OpRecord(name, repeats, repeat_on_thread, lower_dim_first, n) ==
  [name |-> name, repeats |-> repeats, repeat_on_thread |-> repeat_on_thread,
   lower_dim_first |-> lower_dim_first, n |-> n]

Cur == frags[Len(frags)]

Points(f) == Prod(f.forward_var) * f.thread_replicate

InitFrag ==
  /\ frags \in { <<f>> : f \in FragmentInputs }
  /\ ops = <<>>
  /\ fstatus = "ok"
  /\ GemmIdle
  /\ LayoutIdle
  /\ LoopIdle
  /\ SharedIdle
  /\ XorIdle
  /\ InverseIdle

RepeatOp ==
  /\ fstatus = "ok"
  /\ Len(ops) < MaxOps
  /\ UNCHANGED <<gvars, lvars, pvars, svars, xvars, ivars>>
  /\ \E repeats \in [1..InputDim(Cur) -> RepeatCounts],
        repeat_on_thread \in BOOLEAN, lower_dim_first \in BOOLEAN :
       /\ Points(Cur) * Prod(repeats) <= MaxPoints
       /\ ops' = Append(ops, OpRecord("Repeat", repeats, repeat_on_thread, lower_dim_first, 0))
       /\ IF RepeatCheck(Cur, repeats, repeat_on_thread)
          THEN /\ frags' = Append(frags, Repeat(Cur, repeats, repeat_on_thread, lower_dim_first))
               /\ fstatus' = "ok"
          ELSE /\ frags' = frags
               /\ fstatus' = "abort"

ReplicateOp ==
  /\ fstatus = "ok"
  /\ Len(ops) < MaxOps
  /\ UNCHANGED <<gvars, lvars, pvars, svars, xvars, ivars>>
  /\ \E n \in ReplicateCounts :
       /\ Points(Cur) * n <= MaxPoints
       /\ ops' = Append(ops, OpRecord("Replicate", NoRepeats, FALSE, FALSE, n))
       /\ IF ReplicateCheck(Cur, n)
          THEN /\ frags' = Append(frags, Replicate(Cur, n))
               /\ fstatus' = "ok"
          ELSE /\ frags' = frags
               /\ fstatus' = "abort"

DeReplicateOp ==
  /\ fstatus = "ok"
  /\ Len(ops) < MaxOps
  /\ UNCHANGED <<gvars, lvars, pvars, svars, xvars, ivars>>
  /\ ops' = Append(ops, OpRecord("DeReplicate", NoRepeats, FALSE, FALSE, 0))
  /\ IF DeReplicateCheck(Cur)
     THEN /\ frags' = Append(frags, DeReplicate(Cur))
          /\ fstatus' = "ok"
     ELSE /\ frags' = frags
          /\ fstatus' = "abort"

NextFrag == RepeatOp \/ ReplicateOp \/ DeReplicateOp

SpecFrag == InitFrag /\ [][NextFrag]_vars

----------------------------------------------------------------------------
(* Properties of the Fragment algebra.  Every prefix of a run is a run, so *)
(* a property of the last operation (k = Len(ops)) or of the last two      *)
(* (k = Len(ops) - 1) is a property of every operation applied.            *)

(* the greatest common divisor, by its definition *)
GreatestCommonDivisor(a, b) == SetMax({ d \in 1..a : a % d = 0 /\ b % d = 0 })

(* ops[k] ran to completion, from frags[k] to frags[k + 1] *)
Applied(k) == k \in 1..Len(ops) /\ k + 1 <= Len(frags)

SameExtents(f, g) ==
  /\ ThreadExtentCheck(f) /\ ThreadExtentCheck(g) /\ ThreadExtent(f) = ThreadExtent(g)
  /\ OutputShapeCheck(f) /\ OutputShapeCheck(g) /\ OutputShape(f) = OutputShape(g)

(* ops[k] is Replicate(n) on F = frags[k] and ops[k + 1] is DeReplicate *)
ReplicateThenDeReplicate(k) ==
  /\ Applied(k) /\ Applied(k + 1)
  /\ ops[k].name = "Replicate" /\ ops[k + 1].name = "DeReplicate"
  /\ OutputDim(frags[k]) = 1

(* C4 as stated: for F with OutputDim()==1 and n >= 1 with                 *)
(* gcd(F.ReplicateExtent(), n) == 1, the DeReplicate step of               *)
(* F.Replicate(n).DeReplicate() leaves ThreadExtent and OutputShape as     *)
(* they are in F.Replicate(n).                                             *)
C4_AsStated ==
  \A k \in {Len(ops) - 1} :
     (ReplicateThenDeReplicate(k)
        /\ GreatestCommonDivisor(ReplicateExtent(frags[k]), ops[k].n) = 1)
     => SameExtents(frags[k + 2], frags[k + 1])

(* C4 amended: the DeReplicate step of F.Replicate(n).DeReplicate() is a   *)
(* no-op on ThreadExtent and OutputShape whenever                          *)
(* gcd(F.ReplicateExtent() * n, F.OutputShape()[0]) == 1, the replication  *)
(* extent and output extent DeReplicate reads.                             *)
C4_DeReplicateNoOp ==
  \A k \in {Len(ops) - 1} :
     (ReplicateThenDeReplicate(k)
        /\ GreatestCommonDivisor(ReplicateExtent(frags[k]) * ops[k].n,
                                 OutputShape(frags[k])[1]) = 1)
     => SameExtents(frags[k + 2], frags[k + 1])

C4_Witness ==
  \E k \in {Len(ops) - 1} :
     /\ ReplicateThenDeReplicate(k)
     /\ ops[k].n > 1
     /\ OutputShape(frags[k])[1] > 1
     /\ GreatestCommonDivisor(ReplicateExtent(frags[k]) * ops[k].n,
                              OutputShape(frags[k])[1]) = 1

(* C5: for G with OutputDim()==1, G.DeReplicate() has no larger            *)
(* ThreadExtent and no larger OutputShape[0] than G; with                  *)
(* factor = gcd(ReplicateExtent, OutputShape[0]) > 1 it has                *)
(* OutputShape[0] = old/factor and ReplicateExtent = old/factor, and with  *)
(* factor = 1 it is G itself.                                              *)
C5_DeReplicateShrinks ==
  \A k \in {Len(ops)} :
     (Applied(k) /\ ops[k].name = "DeReplicate") =>
       LET G == frags[k]
           D == frags[k + 1]
           factor == GreatestCommonDivisor(ReplicateExtent(G), OutputShape(G)[1])
       IN /\ OutputShapeCheck(D)
          /\ OutputShape(D)[1] <= OutputShape(G)[1]
          /\ (ThreadExtentCheck(G) /\ ThreadExtentCheck(D))
                => ThreadExtent(D) <= ThreadExtent(G)
          /\ factor > 1 => /\ OutputShape(D)[1] * factor = OutputShape(G)[1]
                           /\ ReplicateExtent(D) * factor = ReplicateExtent(G)
          /\ factor = 1 => D = G

C5_Witness ==
  \E k \in {Len(ops)} :
     /\ Applied(k) /\ ops[k].name = "DeReplicate"
     /\ GreatestCommonDivisor(ReplicateExtent(frags[k]), OutputShape(frags[k])[1]) > 1
     /\ ThreadExtentCheck(frags[k + 1])
     /\ OutputShape(frags[k + 1])[1] < OutputShape(frags[k])[1]

(* ops[k] and ops[k + 1] are Repeat(c1) and Repeat(c2) with the same flags *)
RepeatTwice(k) ==
  /\ Applied(k) /\ Applied(k + 1)
  /\ ops[k].name = "Repeat" /\ ops[k + 1].name = "Repeat"
  /\ ops[k].repeat_on_thread = ops[k + 1].repeat_on_thread
  /\ ops[k].lower_dim_first = ops[k + 1].lower_dim_first

(* C6: F.Repeat(c1).Repeat(c2) has the same ThreadExtent and the same      *)
(* OutputShape as F.Repeat(c1[i]*c2[i] for each i), the flags being the    *)
(* same in all three calls.                                                *)
C6_RepeatComposes ==
  \A k \in {Len(ops) - 1} :
     RepeatTwice(k) =>
       LET F == frags[k]
           c == [i \in 1..InputDim(F) |-> ops[k].repeats[i] * ops[k + 1].repeats[i]]
       IN /\ RepeatCheck(F, c, ops[k].repeat_on_thread)
          /\ SameExtents(frags[k + 2],
                         Repeat(F, c, ops[k].repeat_on_thread, ops[k].lower_dim_first))

C6_Witness ==
  \E k \in {Len(ops) - 1} :
     /\ RepeatTwice(k)
     /\ InputDim(frags[k]) = 2
     /\ \A i \in 1..2 : ops[k].repeats[i] > 1
     /\ \E i \in 1..2 : ops[k + 1].repeats[i] > 1
     /\ ops[k].repeat_on_thread

----------------------------------------------------------------------------
(* A call of a register-tile factory                                       *)

BlockSizes == {16, 32, 64}

WarpSizes == {16, 32}

ElementSizes == {16, 64}

BlockKs == {16, 24}

GemmArgs(block_m, block_n, warp_m, warp_n, element_size) ==
  [block_m |-> block_m, block_n |-> block_n, warp_m |-> warp_m, warp_n |-> warp_n,
   element_size |-> element_size]

InitGemm ==
  /\ gargs \in { GemmArgs(bm, bn, wm, wn, es) :
                   bm \in BlockSizes, bn \in BlockSizes, wm \in WarpSizes,
                   wn \in WarpSizes, es \in ElementSizes }
  /\ gout = NoFragment
  /\ gstatus = "start"
  /\ gblock_k = 0
  /\ goutA = NoFragment
  /\ gstatusA = "idle"
  /\ goutB = NoFragment
  /\ gstatusB = "idle"
  /\ FragIdle
  /\ LayoutIdle
  /\ LoopIdle
  /\ SharedIdle
  /\ XorIdle
  /\ InverseIdle

CallMakeGemmFragmentC ==
  /\ gstatus = "start"
  /\ UNCHANGED <<gargs, gblock_k, goutA, gstatusA, goutB, gstatusB>>
  /\ UNCHANGED <<fvars, lvars, pvars, svars, xvars, ivars>>
  /\ IF makeGemmFragmentCCheck(gargs.block_m, gargs.block_n, gargs.warp_m, gargs.warp_n)
     THEN /\ gout' = makeGemmFragmentC(gargs.block_m, gargs.block_n, gargs.warp_m,
                                       gargs.warp_n, gargs.element_size)
          /\ gstatus' = "done"
     ELSE /\ gout' = gout
          /\ gstatus' = "abort"

NextGemm == CallMakeGemmFragmentC

SpecGemm == InitGemm /\ [][NextGemm]_vars

(* the three operand Fragments of one GEMM tile: makeGemmFragmentC,        *)
(* makeGemmFragmentA and makeGemmFragmentB called with the same arguments; *)
(* no block is smaller than its warp tile                                  *)
OperandBlockSizes == {16, 32, 48}

InitOperands ==
  /\ gargs \in { GemmArgs(bm, bn, wm, wn, 16) :
                   bm \in OperandBlockSizes, bn \in OperandBlockSizes,
                   wm \in WarpSizes, wn \in WarpSizes }
  /\ gargs.block_m >= gargs.warp_m
  /\ gargs.block_n >= gargs.warp_n
  /\ gblock_k \in BlockKs
  /\ gout = NoFragment
  /\ gstatus = "start"
  /\ goutA = NoFragment
  /\ gstatusA = "start"
  /\ goutB = NoFragment
  /\ gstatusB = "start"
  /\ FragIdle
  /\ LayoutIdle
  /\ LoopIdle
  /\ SharedIdle
  /\ XorIdle
  /\ InverseIdle

CallMakeGemmFragmentA ==
  /\ gstatusA = "start"
  /\ UNCHANGED <<gargs, gblock_k, gout, gstatus, goutB, gstatusB>>
  /\ UNCHANGED <<fvars, lvars, pvars, svars, xvars, ivars>>
  /\ IF makeGemmFragmentACheck(gargs.block_m, gargs.block_n, gblock_k, gargs.warp_m,
                               gargs.warp_n)
     THEN /\ goutA' = makeGemmFragmentA(gargs.block_m, gargs.block_n, gblock_k,
                                        gargs.warp_m, gargs.warp_n)
          /\ gstatusA' = "done"
     ELSE /\ goutA' = goutA
          /\ gstatusA' = "abort"

CallMakeGemmFragmentB ==
  /\ gstatusB = "start"
  /\ UNCHANGED <<gargs, gblock_k, gout, gstatus, goutA, gstatusA>>
  /\ UNCHANGED <<fvars, lvars, pvars, svars, xvars, ivars>>
  /\ IF makeGemmFragmentBCheck(gargs.block_m, gargs.block_n, gblock_k, gargs.warp_m,
                               gargs.warp_n)
     THEN /\ goutB' = makeGemmFragmentB(gargs.block_m, gargs.block_n, gblock_k,
                                        gargs.warp_m, gargs.warp_n)
          /\ gstatusB' = "done"
     ELSE /\ goutB' = goutB
          /\ gstatusB' = "abort"

NextOperands ==
  CallMakeGemmFragmentC \/ CallMakeGemmFragmentA \/ CallMakeGemmFragmentB

SpecOperands == InitOperands /\ [][NextOperands]_vars

(* the call makeGemmFragmentC(64, 64, 32, 32, 16) has returned *)
C3_Call == gstatus = "done" /\ gargs = GemmArgs(64, 64, 32, 32, 16)

(* C3 as stated: the Fragment returned by makeGemmFragmentC(64,64,32,32,16) *)
(* has ThreadExtent() == 32.                                                *)
C3_AsStated == C3_Call => (ThreadExtentCheck(gout) /\ ThreadExtent(gout) = 32)

(* C3 amended: the Fragment returned by makeGemmFragmentC(64,64,32,32,16)  *)
(* has ThreadExtent() == 128: four warps (2 x 2 warp tiles of 32 x 32) of  *)
(* 32 lanes each.                                                          *)
C3_ThreadExtent128 == C3_Call => (ThreadExtentCheck(gout) /\ ThreadExtent(gout) = 128)

C3_Witness == C3_Call /\ gout.forward_var = <<64, 64>>

----------------------------------------------------------------------------
(* arith::DetectIterMap and arith::InverseAffineIterMap, from their        *)
(* contract: an index is affine when it normalizes to an IterSumExpr, a    *)
(* base plus scaled IterSplitExprs <<var, lower_factor, extent, scale>>,   *)
(* each standing for ((var div lower_factor) mod extent) * scale.          *)

IterSum(args, base) == [ok |-> TRUE, args |-> args, base |-> base]

IterFail == [ok |-> FALSE, args |-> <<>>, base |-> 0]

RemoveAt(s, i) == SubSeq(s, 1, i - 1) \o SubSeq(s, i + 1, Len(s))

RECURSIVE SortByScale(_)
SortByScale(args) ==
  IF args = <<>> THEN <<>>
  ELSE LET m == CHOOSE i \in 1..Len(args) : \A j \in 1..Len(args) : args[i][4] <= args[j][4]
       IN <<args[m]>> \o SortByScale(RemoveAt(args, m))

(* TryFuseIters: the splits, by increasing scale, are the digits of one    *)
(* mixed-radix number                                                      *)
IsChain(sorted) ==
  \A k \in 1..(Len(sorted) - 1) : sorted[k + 1][4] = sorted[k][4] * sorted[k][3]

ScaleDown(a, c) == [k \in 1..Len(a) |-> <<a[k][1], a[k][2], a[k][3], a[k][4] \div c>>]

(* floordiv of a fused chain by the constant c *)
RECURSIVE DivChain(_, _)
DivChain(a, c) ==
  IF a = <<>> THEN IterSum(<<>>, 0)
  ELSE LET h == a[1]
           s == h[4]
           e == h[3]
       IN IF s % c = 0 THEN IterSum(ScaleDown(a, c), 0)
          ELSE IF c % s # 0 THEN IterFail
          ELSE LET c1 == c \div s IN
               IF e % c1 = 0
               THEN IterSum((IF e \div c1 = 1 THEN <<>>
                             ELSE << <<h[1], h[2] * c1, e \div c1, 1>> >>)
                            \o ScaleDown(Tail(a), c), 0)
               ELSE IF c1 % e = 0 THEN DivChain(Tail(a), c)
               ELSE IterFail

(* floormod of a fused chain by the constant c *)
RECURSIVE ModChain(_, _)
ModChain(a, c) ==
  IF a = <<>> THEN IterSum(<<>>, 0)
  ELSE LET h == a[1]
           s == h[4]
           e == h[3]
       IN IF s % c = 0 THEN IterSum(<<>>, 0)
          ELSE IF c % s # 0 THEN IterFail
          ELSE LET c1 == c \div s IN
               IF e % c1 = 0 THEN IterSum(<< <<h[1], h[2], c1, s>> >>, 0)
               ELSE IF c1 % e = 0
               THEN LET r == ModChain(Tail(a), c)
                    IN IF r.ok THEN IterSum(<<h>> \o r.args, 0) ELSE IterFail
               ELSE IterFail

IterAdd(a, b) ==
  IF a.ok /\ b.ok THEN IterSum(a.args \o b.args, a.base + b.base) ELSE IterFail

IterScale(a, c) ==
  IF c = 0 THEN IterSum(<<>>, 0)
  ELSE IterSum([k \in 1..Len(a.args) |->
                  <<a.args[k][1], a.args[k][2], a.args[k][3], a.args[k][4] * c>>],
               a.base * c)

IterMul(a, b) ==
  IF ~(a.ok /\ b.ok) THEN IterFail
  ELSE IF b.args = <<>> THEN IterScale(a, b.base)
  ELSE IF a.args = <<>> THEN IterScale(b, a.base)
  ELSE IterFail

IterDivMod(op, a, b) ==
  IF ~(a.ok /\ b.ok) \/ b.args # <<>> \/ b.base <= 0 \/ a.base % b.base # 0 THEN IterFail
  ELSE LET sorted == SortByScale(a.args) IN
       IF ~IsChain(sorted) THEN IterFail
       ELSE IF op = "floordiv"
       THEN LET r == DivChain(sorted, b.base)
            IN IF r.ok THEN IterSum(r.args, a.base \div b.base) ELSE IterFail
       ELSE ModChain(sorted, b.base)

(* IterMapRewriter: one token of e run on the stack of IterSumExprs; a    *)
(* variable of extent 1 is the constant 0                                  *)
NormalizeStep(stack, t, exts) ==
  IF t[1] = "var"
  THEN <<IF exts[t[2]] = 1 THEN IterSum(<<>>, 0)
         ELSE IterSum(<< <<t[2], 1, exts[t[2]], 1>> >>, 0)>> \o stack
  ELSE IF t[1] = "const" THEN <<IterSum(<<>>, t[2])>> \o stack
  ELSE LET a == stack[2]
           b == stack[1]
           r == CASE t[1] = "add" -> IterAdd(a, b)
                  [] t[1] = "mul" -> IterMul(a, b)
                  [] OTHER -> IterDivMod(t[1], a, b)
       IN <<r>> \o Tail(Tail(stack))

RECURSIVE NormalizeFrom(_, _, _, _, _)
NormalizeFrom(e, lo, hi, stack, exts) ==
  IF lo > hi THEN stack
  ELSE IF lo = hi THEN NormalizeStep(stack, e[lo], exts)
  ELSE LET left == NormalizeFrom(e, lo, (lo + hi) \div 2, stack, exts)
       IN IF Len(left) >= 0 THEN NormalizeFrom(e, (lo + hi) \div 2 + 1, hi, left, exts)
          ELSE left

NormalizeToIterSum(e, exts) ==
  LET r == NormalizeFrom(e, 1, Len(e), <<>>, exts)[1]
  IN IF r.ok THEN IterSum(SortByScale(r.args), r.base) ELSE IterFail

(* the <<lower_factor, extent>> pieces S tile [lf, E) of one variable *)
RECURSIVE Covers(_, _, _)
Covers(S, lf, E) ==
  IF S = {} THEN lf = E
  ELSE /\ \E p \in S : p[1] = lf
       /\ LET p == CHOOSE q \in S : q[1] = lf IN Covers(S \ {p}, lf * p[2], E)

(* DetectIterMap(indices, input_iters, 1, Bijective): res.indices when     *)
(* res.errors is empty (ok), every index a fused chain and every input     *)
(* variable of extent > 1 covered exactly once                             *)
DetectIterMap(indices, exts) ==
  LET sums == [k \in 1..Len(indices) |-> NormalizeToIterSum(indices[k], exts)]
      pieces(x) == UNION { { <<k, j>> : j \in { m \in 1..Len(sums[k].args) :
                                                   sums[k].args[m][1] = x } } :
                           k \in 1..Len(indices) }
      covered(x) ==
        LET S == { <<sums[p[1]].args[p[2]][2], sums[p[1]].args[p[2]][3]>> : p \in pieces(x) }
        IN Cardinality(S) = Cardinality(pieces(x)) /\ Covers(S, 1, exts[x])
  IN [ok |-> /\ \A k \in 1..Len(indices) : sums[k].ok /\ IsChain(sums[k].args)
             /\ \A x \in 1..Len(exts) : exts[x] > 1 => covered(x),
      indices |-> sums]

RECURSIVE SumOf(_)
SumOf(terms) ==
  IF Len(terms) = 1 THEN terms[1] ELSE Add(SumOf(SubSeq(terms, 1, Len(terms) - 1)),
                                           terms[Len(terms)])

RECURSIVE TermsOf(_, _, _, _)
TermsOf(sums, x, k, j) ==
  IF k > Len(sums) THEN <<>>
  ELSE IF j > Len(sums[k].args) THEN TermsOf(sums, x, k + 1, 1)
  ELSE (IF sums[k].args[j][1] = x
        THEN <<Mul(FloorMod(FloorDiv(Var(k), Const(sums[k].args[j][4])),
                            Const(sums[k].args[j][3])),
                   Const(sums[k].args[j][2]))>>
        ELSE <<>>)
       \o TermsOf(sums, x, k, j + 1)

(* InverseAffineIterMap(res.indices, outputs): the input variables that    *)
(* the map determines, each as an expression of the output variables       *)
(* Var(k); a variable the map does not hold is not in the domain           *)
InverseAffineIterMap(sums, n) ==
  [x \in { y \in 1..n : TermsOf(sums, y, 1, 1) # <<>> } |-> SumOf(TermsOf(sums, x, 1, 1))]

----------------------------------------------------------------------------
(* LayoutNode::Inverse and Layout equality                                 *)

(* ICHECK(res->errors.empty()) and the CHECK of OutputShape() *)
InverseCheck(l) == DetectIterMap(l.forward_index, l.forward_var).ok /\ OutputShapeCheck(l)

(* Inverse whose fresh variables take the input extents *)
InverseOverInputShape(l) ==
  LET res == DetectIterMap(l.forward_index, l.forward_var)
      inv == InverseAffineIterMap(res.indices, InputDim(l))
  IN Layout([i \in 1..OutputDim(l) |->
               IF i <= InputDim(l) THEN InputShape(l)[i] ELSE 1],
            [i \in 1..InputDim(l) |-> IF i \in DOMAIN inv THEN inv[i] ELSE Const(0)])

Inverse(l) ==
  LET res == DetectIterMap(l.forward_index, l.forward_var)
      outputs_shape == OutputShape(l)
      inverse_iter_var == [i \in 1..OutputDim(l) |-> outputs_shape[i]]
      inv == InverseAffineIterMap(res.indices, InputDim(l))
      backward_index == [i \in 1..InputDim(l) |->
                           IF i \in DOMAIN inv THEN inv[i] ELSE Const(0)]
  IN Layout(inverse_iter_var, backward_index)

(* LayoutNode::SEqualReduce, the Forward results compared by value at      *)
(* every point of the input domain                                         *)
SEqualReduce(a, b) ==
  /\ InputDim(a) = InputDim(b)
  /\ InputShape(a) = InputShape(b)
  /\ OutputDim(a) = OutputDim(b)
  /\ \A p \in Envs(a.forward_var, 1) :
        \A k \in 1..OutputDim(a) : Eval(a.forward_index[k], p) = Eval(b.forward_index[k], p)

(* the test of the splits of iter_sum against the candidate vector_size,  *)
(* with every split held to the scale test of the splits of other          *)
(* variables                                                               *)
CanVectorLoadByScale(args, last_var, vector_size) ==
  \A k \in 1..Len(args) : args[k][4] % vector_size = 0

(* the for loop of VectorSize over iter_sum->args: a split is              *)
(* <<source, lower_factor, extent, scale>>                                 *)
CanVectorLoad(args, last_var, vector_size) ==
  \A k \in 1..Len(args) :
     IF args[k][1] = last_var /\ args[k][2] < vector_size
     THEN args[k][2] = args[k][4]
     ELSE args[k][4] % vector_size = 0

(* the while loop of VectorSize, from the candidate vector_size on *)
RECURSIVE VectorSizeFrom(_, _, _, _)
VectorSizeFrom(last_dim, args, last_var, vector_size) ==
  IF last_dim % vector_size # 0 THEN vector_size \div 2
  ELSE IF ~CanVectorLoad(args, last_var, vector_size) THEN vector_size \div 2
  ELSE VectorSizeFrom(last_dim, args, last_var, vector_size * 2)

(* LayoutNode::VectorSize; an index NormalizeToIterSum cannot split is     *)
(* left whole in the base of iter_sum, which then has no args              *)
VectorSize(l) ==
  LET last_dim == OutputShape(l)[OutputDim(l)]
      iter_sum == NormalizeToIterSum(l.forward_index[OutputDim(l)], l.forward_var)
  IN VectorSizeFrom(last_dim, iter_sum.args, InputDim(l), 2)

----------------------------------------------------------------------------
(* A Layout, its Inverse() and its OutputShape()                           *)

MaxInverse == 2

Extents == {1, 2, 3, 4}

(* Layouts handed to Layout::Layout over i in [0, a) and j in [0, b) *)
LayoutsOver(a, b) ==
  LET i == Var(1)
      j == Var(2)
      flat == Add(Mul(i, Const(b)), j)
  IN { Layout(<<a, b>>, <<i, j>>),
       Layout(<<a, b>>, <<j, i>>),
       Layout(<<a, b>>, <<flat>>),
       Layout(<<a, b>>, <<Add(Mul(j, Const(a)), i)>>),
       Layout(<<a, b>>, <<FloorDiv(flat, Const(b)), FloorMod(flat, Const(b))>>),
       Layout(<<a, b>>, <<i, FloorMod(Add(i, j), Const(b))>>),
       Layout(<<a, b>>, <<Add(i, j)>>),
       Layout(<<a, b>>, <<Add(i, Const(1)), j>>),
       Layout(<<a, b>>, <<Mul(Const(2), i), j>>),
       Layout(<<a, b>>, <<FloorDiv(i, Const(2)), FloorMod(i, Const(2)), j>>) }
  \cup (IF b % 2 = 0
        THEN { Layout(<<a, b>>, <<FloorDiv(flat, Const(2)), FloorMod(flat, Const(2))>>) }
        ELSE {})

Rows == {1, 2, 3}

RowLengths == {8, 16}

(* Layouts over i in [0, a) and a row j in [0, K) of 8 or 16 elements *)
RowLayoutsOver(a, K) ==
  LET i == Var(1)
      j == Var(2)
      bit(n) == FloorMod(FloorDiv(j, Const(n)), Const(2))
  IN { Layout(<<a, K>>, <<Add(Mul(i, Const(K)), j)>>),
       Layout(<<a, K>>, <<i, j>>),
       Layout(<<a, K>>, <<j, i>>),
       Layout(<<a, K>>, <<Add(Mul(j, Const(a)), i)>>),
       Layout(<<a, K>>, <<Add(Mul(i, Const(K)),
                              Add(Mul(FloorMod(j, Const(2)), Const(K \div 2)),
                                  FloorDiv(j, Const(2))))>>),
       Layout(<<a, K>>, <<Add(Mul(i, Const(K)),
                              Add(Mul(FloorDiv(j, Const(8)), Const(8)),
                                  Add(Mul(bit(4), Const(2)),
                                      Add(Mul(bit(2), Const(4)), bit(1)))))>>) }

LayoutInputs ==
  UNION { LayoutsOver(a, b) : a \in Extents, b \in Extents }
  \cup UNION { RowLayoutsOver(a, K) : a \in Rows, K \in RowLengths }

InitLayout ==
  /\ lay0 \in LayoutInputs
  /\ lay = lay0
  /\ lcount = 0
  /\ lastcall = "none"
  /\ lshape = NoShape
  /\ lvector = 0
  /\ lstatus = "ok"
  /\ FragIdle
  /\ GemmIdle
  /\ LoopIdle
  /\ SharedIdle
  /\ XorIdle
  /\ InverseIdle

InverseOp ==
  /\ lstatus = "ok"
  /\ lcount < MaxInverse
  /\ lastcall' = "Inverse"
  /\ lshape' = NoShape
  /\ UNCHANGED <<lay0, lvector, fvars, gvars, pvars, svars, xvars, ivars>>
  /\ IF InverseCheck(lay)
     THEN /\ lay' = Inverse(lay)
          /\ lcount' = lcount + 1
          /\ lstatus' = "ok"
     ELSE /\ lay' = lay
          /\ lcount' = lcount
          /\ lstatus' = "abort"

OutputShapeOp ==
  /\ lstatus = "ok"
  /\ lastcall # "OutputShape"
  /\ lastcall' = "OutputShape"
  /\ UNCHANGED <<lay0, lay, lcount, lvector, fvars, gvars, pvars, svars, xvars, ivars>>
  /\ IF OutputShapeCheck(lay)
     THEN /\ lshape' = OutputShape(lay)
          /\ lstatus' = "ok"
     ELSE /\ lshape' = NoShape
          /\ lstatus' = "abort"

(* lay.VectorSize() *)
VectorSizeOp ==
  /\ lstatus = "ok"
  /\ lastcall # "VectorSize"
  /\ lastcall' = "VectorSize"
  /\ UNCHANGED <<lay0, lay, lcount, lshape, fvars, gvars, pvars, svars, xvars, ivars>>
  /\ IF OutputShapeCheck(lay)
     THEN /\ lvector' = VectorSize(lay)
          /\ lstatus' = "ok"
     ELSE /\ lvector' = 0
          /\ lstatus' = "abort"

NextLayout == InverseOp \/ OutputShapeOp \/ VectorSizeOp

SpecLayout == InitLayout /\ [][NextLayout]_vars

(* the tuple of output values of l at the point p *)
OutputAt(l, p) == [k \in 1..OutputDim(l) |-> Eval(l.forward_index[k], p)]

(* the forward map of l is a bijection from its input domain onto the box  *)
(* [0, OutputShape): no output value is negative, no two points share an   *)
(* output tuple, and the tuples are as many as the box has points          *)
Bijection(l) ==
  LET pts == Envs(l.forward_var, 1)
      image == { OutputAt(l, p) : p \in pts }
      top(k) == SetMax({ t[k] : t \in image })
      bottom(k) == SetMin({ t[k] : t \in image })
  IN /\ \A k \in 1..OutputDim(l) : bottom(k) = 0
     /\ Cardinality(image) = Cardinality(pts)
     /\ Cardinality(image) = Prod([k \in 1..OutputDim(l) |-> top(k) + 1])

RoundTrip ==
  /\ lastcall = "Inverse" => lstatus = "ok"
  /\ lcount = 2 => SEqualReduce(lay, lay0)

(* C2 as stated: for every Layout L whose forward map is a bijection from  *)
(* its input domain onto its output box, L.Inverse().Inverse() is equal to *)
(* L (same InputDim, same InputShape, same forward result at every point). *)
C2_AsStated == Bijection(lay0) => RoundTrip

(* C2 amended: for every Layout L whose forward map is a bijection from    *)
(* its input domain onto its output box and is detected as a bijective     *)
(* affine iteration map (so that L.Inverse() does not fail),               *)
(* L.Inverse().Inverse() is equal to L.                                    *)
C2_InverseRoundTrip ==
  (Bijection(lay0) /\ DetectIterMap(lay0.forward_index, lay0.forward_var).ok) => RoundTrip

C2_Witness ==
  /\ lcount = 2 /\ lstatus = "ok" /\ lastcall = "Inverse"
  /\ Bijection(lay0)
  /\ OutputDim(lay0) = 2 /\ OutputShape(lay0) # InputShape(lay0)
  /\ lay0.forward_var = <<2, 4>>

(* C10: whenever OutputShape() returns, every output expression has        *)
(* minimum exactly 0 over the input domain and the returned extent is its  *)
(* maximum plus 1; for a Layout with an output expression whose minimum    *)
(* over the input domain is not 0, OutputShape() fails.                    *)
C10_OutputShapeFromZero ==
  lastcall = "OutputShape" =>
    LET pts == Envs(lay.forward_var, 1)
        value(k, p) == Eval(lay.forward_index[k], p)
        zeroMin(k) == (\A p \in pts : value(k, p) >= 0) /\ (\E p \in pts : value(k, p) = 0)
    IN IF lstatus = "ok"
       THEN /\ Len(lshape) = OutputDim(lay)
            /\ \A k \in 1..OutputDim(lay) :
                 /\ zeroMin(k)
                 /\ \A p \in pts : value(k, p) <= lshape[k] - 1
                 /\ \E p \in pts : value(k, p) = lshape[k] - 1
       ELSE \E k \in 1..OutputDim(lay) : ~zeroMin(k)

C10_Witness ==
  /\ lastcall = "OutputShape" /\ lstatus = "ok"
  /\ lay.forward_var = <<3, 4>> /\ lshape = <<12>>

C10_WitnessFails ==
  /\ lastcall = "OutputShape" /\ lstatus = "abort"
  /\ lay.forward_var = <<3, 4>>

----------------------------------------------------------------------------
(* Loop partition (loop_partition.cc)                                      *)
(*                                                                         *)
(* A loop nest is a chain of statements over one BufferStore: nodes[1] is  *)
(* the statement op, nodes[q + 1] is the body of nodes[q], and the body of *)
(* the last node is the store, whose indices are store.  A node is a For   *)
(* of kind "parallel", "serial" or "unrolled", or a statement that is not  *)
(* a For ("nonloop": it has one child and binds no variable).  The loop    *)
(* variable of the q-th node of the nest handed in is variable -q; the     *)
(* variables PartitionLoop makes are 1..new_loop_depth, and the thread     *)
(* variable is new_loop_depth + 1.                                         *)

ForNode(kind, var, extent) == [kind |-> kind, var |-> var, extent |-> extent]

NotFor == [kind |-> "nonloop", var |-> 0, extent |-> 0]

(* LoopPartitioner::VisitStmt_ run over the nest: a For of kind kParallel  *)
(* is pushed to loop_vars_, and the visit goes on into every body          *)
RECURSIVE VisitStmt_(_)
VisitStmt_(nodes) ==
  IF nodes = <<>> THEN <<>>
  ELSE (IF nodes[1].kind = "parallel" THEN <<nodes[1]>> ELSE <<>>)
       \o VisitStmt_(Tail(nodes))

(* ICHECK("Not Implemented case."): the value checked is the string        *)
(* literal itself, which is never null                                     *)
NotImplementedCheck == TRUE

PartitionCheck(nodes, T) ==
  LET lv == VisitStmt_(nodes)
      loop_size_full == Prod([k \in 1..Len(lv) |-> lv[k].extent])
  IN (loop_size_full % T # 0) => NotImplementedCheck

RECURSIVE Flattened(_, _)
Flattened(lv, k) ==
  IF k = 0 THEN Const(0)
  ELSE Add(Mul(Flattened(lv, k - 1), Const(lv[k].extent)), Var(k))

(* Partition that hands each thread a contiguous block of iterations *)
PartitionBlocked(nodes, T) ==
  LET lv == VisitStmt_(nodes)
      flattened == Flattened(lv, Len(lv))
  IN Fragment([k \in 1..Len(lv) |-> lv[k].extent],
              <<FloorMod(flattened, Const(T))>>, FloorDiv(flattened, Const(T)), 1)

(* LoopPartitioner::Partition; variable k of the Fragment is the loop      *)
(* variable of loop_vars_[k]                                               *)
Partition(nodes, T) ==
  LET lv == VisitStmt_(nodes)
      flattened == Flattened(lv, Len(lv))
  IN Fragment([k \in 1..Len(lv) |-> lv[k].extent],
              <<FloorDiv(flattened, Const(T))>>, FloorMod(flattened, Const(T)), 1)

(* the Layout with forward_thread_ put before forward_index_ *)
FragmentLayoutThreadFirst(f) ==
  LET n == InputDim(f)
      rep == [v \in {0} |-> Var(n + 1)]
  IN Layout(Append(f.forward_var, ReplicateExtent(f)),
            [k \in 1..(OutputDim(f) + 1) |->
               IF k = 1 THEN Substitute(f.forward_thread, rep)
               ELSE Substitute(f.forward_index[k - 1], rep)])

(* the Layout FragmentNode::Inverse inverts: thread_replicate_ is the last *)
(* input and forward_thread_ the last output                               *)
FragmentLayout(f) ==
  LET n == InputDim(f)
      rep == [v \in {0} |-> Var(n + 1)]
  IN Layout(Append(f.forward_var, ReplicateExtent(f)),
            [k \in 1..(OutputDim(f) + 1) |->
               IF k <= OutputDim(f) THEN Substitute(f.forward_index[k], rep)
               ELSE Substitute(f.forward_thread, rep)])

FragmentInverseCheck(f) == InverseCheck(FragmentLayout(f))

FragmentInverse(f) == Inverse(FragmentLayout(f))

(* LoopPramaUnroller run as LoopPragmaUnroll runs it: the first For of     *)
(* kind kSerial met from the top becomes kUnrolled and is returned without *)
(* a visit of its body; any other statement is rebuilt from its visited    *)
(* body                                                                    *)
RECURSIVE LoopPragmaUnroll(_)
LoopPragmaUnroll(nodes) ==
  IF nodes = <<>> THEN <<>>
  ELSE IF nodes[1].kind = "serial"
       THEN <<ForNode("unrolled", nodes[1].var, nodes[1].extent)>> \o Tail(nodes)
       ELSE <<nodes[1]>> \o LoopPragmaUnroll(Tail(nodes))

(* body.as<For>().value() in each of the old_loop_depth steps and at the   *)
(* return, after loop_layout->Inverse()                                    *)
PartitionLoopCheck(nest, layout) ==
  /\ FragmentInverseCheck(layout)
  /\ InputDim(layout) <= Len(nest.nodes)
  /\ \A i \in 1..InputDim(layout) : nest.nodes[i].kind # "nonloop"
  /\ OutputDim(layout) = 0 =>
       /\ InputDim(layout) < Len(nest.nodes)
       /\ nest.nodes[InputDim(layout) + 1].kind # "nonloop"

(* the loop nest PartitionLoop builds once inv_loop is known: the first    *)
(* old_loop_depth statements give way to new_loop_depth serial loops       *)
Rewrite(nest, old_loop_depth, new_loop_depth, inv_loop) ==
  LET vars_ == [i \in 1..(new_loop_depth + 1) |-> Var(i)]
      indices == Forward(inv_loop, vars_)
      stripped == { nest.nodes[i].var : i \in 1..old_loop_depth }
      vmap == [v \in stripped |->
                 indices[CHOOSE i \in 1..old_loop_depth :
                           /\ nest.nodes[i].var = v
                           /\ \A j \in (i + 1)..old_loop_depth : nest.nodes[j].var # v]]
      body == SubSeq(nest.nodes, old_loop_depth + 1, Len(nest.nodes))
      serial == [i \in 1..new_loop_depth |-> ForNode("serial", i, InputShape(inv_loop)[i])]
  IN [nodes |-> LoopPragmaUnroll(serial \o body),
      store |-> [k \in 1..Len(nest.store) |-> Simplify(Substitute(nest.store[k], vmap))]]

(* PartitionLoop(op, thread, analyzer, loop_layout) *)
PartitionLoop(nest, layout) ==
  Rewrite(nest, InputDim(layout), OutputDim(layout), FragmentInverse(layout))

----------------------------------------------------------------------------
(* Partition and PartitionLoop over loop nests                             *)

MaxDepth == 3

LoopExtents == {2, 3}

SingleExtents == {1, 2, 3, 4, 6, 8, 256}

ThreadCounts == {1, 2, 3, 4, 64, 100}

Kinds == {"parallel", "serial", "nonloop"}

(* the indices of the store: the loop variables of the nest, outermost first *)
RECURSIVE StoreOf(_)
StoreOf(nodes) ==
  IF nodes = <<>> THEN <<>>
  ELSE (IF nodes[1].kind # "nonloop" THEN <<Var(nodes[1].var)>> ELSE <<>>)
       \o StoreOf(Tail(nodes))

NestOf(kinds, extents) ==
  LET nodes == [q \in 1..Len(kinds) |->
                  IF kinds[q] = "nonloop" THEN NotFor
                  ELSE ForNode(kinds[q], 0 - q, extents[q])]
  IN [nodes |-> nodes, store |-> StoreOf(nodes)]

(* the nests handed in: op is a parallel For *)
LoopNests ==
  { NestOf(<<"parallel">>, <<e>>) : e \in SingleExtents }
  \cup UNION { { NestOf(kinds, extents) :
                   kinds \in { ks \in [1..n -> Kinds] : ks[1] = "parallel" },
                   extents \in [1..n -> LoopExtents] } : n \in 2..MaxDepth }

(* the parallel loops that enclose one another from op on *)
RECURSIVE Contiguous(_)
Contiguous(nodes) ==
  IF nodes = <<>> \/ nodes[1].kind # "parallel" THEN <<>>
  ELSE <<nodes[1]>> \o Contiguous(Tail(nodes))

(* Fragments a caller hands to PartitionLoop for a nest, over the          *)
(* iteration space of its contiguous parallel loops, for T threads         *)
LayoutsFor(nest, T) ==
  LET lv == Contiguous(nest.nodes)
      shape == [k \in 1..Len(lv) |-> lv[k].extent]
      flattened == Flattened(lv, Len(lv))
      size == Prod(shape)
      i == Var(1)
      j == Var(2)
  IN (IF size * T <= MaxPoints
      THEN { Fragment(shape, [k \in 1..Len(lv) |-> Var(k)], Var(0), T) }
      ELSE {})
     \cup (IF size % T = 0
           THEN { Fragment(shape, <<FloorMod(flattened, Const(size \div T))>>,
                           FloorDiv(flattened, Const(size \div T)), 1) }
           ELSE {})
     \cup (IF Len(lv) = 2 /\ shape[2] % T = 0
           THEN { Fragment(shape, <<i, FloorDiv(j, Const(T))>>, FloorMod(j, Const(T)), 1),
                  Fragment(shape, <<FloorDiv(j, Const(T)), i>>, FloorMod(j, Const(T)), 1) }
           ELSE {})
     \cup (IF Len(lv) = 3
           THEN { Fragment(shape, <<Var(3), Var(1)>>, Var(2), 1) }
           ELSE {})

InitLoop ==
  /\ loop \in LoopNests
  /\ num_thread \in ThreadCounts
  /\ loop_vars_ = <<>>
  /\ loop_layout = NoFragment
  /\ layout_by = "none"
  /\ new_loop = NoLoop
  /\ ppc = "start"
  /\ FragIdle
  /\ GemmIdle
  /\ LayoutIdle
  /\ SharedIdle
  /\ XorIdle
  /\ InverseIdle

(* LoopPartitioner::Partition(op, num_thread) *)
PartitionOp ==
  /\ ppc = "start"
  /\ UNCHANGED <<loop, num_thread, new_loop, fvars, gvars, lvars, svars, xvars, ivars>>
  /\ loop_vars_' = [k \in 1..Len(VisitStmt_(loop.nodes)) |-> VisitStmt_(loop.nodes)[k].var]
  /\ IF PartitionCheck(loop.nodes, num_thread)
     THEN /\ loop_layout' = Partition(loop.nodes, num_thread)
          /\ layout_by' = "Partition"
          /\ ppc' = "partitioned"
     ELSE /\ loop_layout' = NoFragment
          /\ layout_by' = "none"
          /\ ppc' = "abort"

(* the caller of PartitionLoop(op, thread, analyzer, loop_layout) makes    *)
(* loop_layout itself                                                      *)
SupplyLayoutOp ==
  /\ ppc = "start"
  /\ UNCHANGED <<loop, num_thread, loop_vars_, new_loop, fvars, gvars, lvars, svars, xvars, ivars>>
  /\ loop_layout' \in LayoutsFor(loop, num_thread)
  /\ layout_by' = "caller"
  /\ ppc' = "partitioned"

(* PartitionLoop(op, thread, analyzer, loop_layout) *)
PartitionLoopOp ==
  /\ ppc = "partitioned"
  /\ UNCHANGED <<loop, num_thread, loop_vars_, loop_layout, layout_by, fvars, gvars, lvars, svars, xvars, ivars>>
  /\ IF PartitionLoopCheck(loop, loop_layout)
     THEN /\ new_loop' = PartitionLoop(loop, loop_layout)
          /\ ppc' = "done"
     ELSE /\ new_loop' = NoLoop
          /\ ppc' = "abort"

NextLoop == PartitionOp \/ SupplyLayoutOp \/ PartitionLoopOp

SpecLoop == InitLoop /\ [][NextLoop]_vars

(* the product of the extents Partition collects from the nest *)
LoopSizeFull ==
  LET lv == VisitStmt_(loop.nodes)
  IN Prod([k \in 1..Len(lv) |-> lv[k].extent])

(* C1: whenever the product of the collected parallel-loop extents is not  *)
(* divisible by the thread count, Partition fails and produces no          *)
(* Fragment (so for a single parallel loop of extent 256 and 100 threads). *)
C1_PartitionFails ==
  (ppc # "start" /\ layout_by # "caller" /\ LoopSizeFull % num_thread # 0)
    => (ppc = "abort" /\ loop_layout = NoFragment)

(* C7: for a single parallel loop of extent N and a thread count T that    *)
(* divides N, PartitionLoop with the Fragment from Partition returns       *)
(* exactly one loop, over the fresh variable d with range [0, N/T), and    *)
(* the original loop variable becomes an expression equal to d*T + thread, *)
(* so that over d in [0, N/T) and thread in [0, T) every value of [0, N)   *)
(* is produced exactly once.                                               *)
C7_SingleLoop ==
  LET N == loop.nodes[1].extent
      T == num_thread
      value(d, t) == Eval(new_loop.store[1], <<d, t>>)
      runs == (0..(N \div T - 1)) \X (0..(T - 1))
  IN (/\ layout_by = "Partition" /\ ppc \in {"done", "abort"}
      /\ Len(loop.nodes) = 1 /\ N % T = 0)
     => /\ ppc = "done"
        /\ Len(new_loop.nodes) = 1
        /\ new_loop.nodes[1].kind # "nonloop"
        /\ new_loop.nodes[1].var = 1
        /\ new_loop.nodes[1].extent = N \div T
        /\ Len(new_loop.store) = 1
        /\ \A r \in runs : value(r[1], r[2]) = r[1] * T + r[2]
        /\ \A i \in 0..(N - 1) : Cardinality({ r \in runs : value(r[1], r[2]) = i }) = 1

C7_Witness ==
  /\ layout_by = "Partition" /\ ppc = "done"
  /\ Len(loop.nodes) = 1 /\ loop.nodes[1].extent = 256 /\ num_thread = 64
  /\ new_loop.nodes[1].extent = 4

(* C8: after PartitionLoop with a Fragment of any OutputDim >= 1, every    *)
(* one of the new loops over the data variables, one per output dimension  *)
(* and at every nesting depth, is marked for unrolling.                    *)
C8_AllUnrolled ==
  ppc = "done" =>
    \A i \in 1..OutputDim(loop_layout) : new_loop.nodes[i].kind = "unrolled"

(* C9: Partition collects the variables and extents of exactly the         *)
(* outermost contiguous chain of parallel loops; a parallel loop beneath a *)
(* serial loop or a non-loop statement is not an input dimension of the    *)
(* returned Fragment.                                                      *)
C9_ContiguousChain ==
  layout_by = "Partition" =>
    LET chain == Contiguous(loop.nodes)
    IN /\ loop_vars_ = [k \in 1..Len(chain) |-> chain[k].var]
       /\ InputShape(loop_layout) = [k \in 1..Len(chain) |-> chain[k].extent]

----------------------------------------------------------------------------
(* VectorSize                                                              *)

(* the last output index of l is i*K + j, j the last input variable, of    *)
(* extent K divisible by 8                                                 *)
RowMajor(l) ==
  /\ InputDim(l) = 2
  /\ l.forward_var[2] % 8 = 0
  /\ l.forward_index[OutputDim(l)] = Add(Mul(Var(1), Const(l.forward_var[2])), Var(2))

(* the last output index of l holds a split of the last input variable     *)
(* below granularity 2 whose scale is not its lower factor                 *)
StrideBreaking(l) ==
  LET iter_sum == NormalizeToIterSum(l.forward_index[OutputDim(l)], l.forward_var)
  IN /\ iter_sum.ok
     /\ \E k \in 1..Len(iter_sum.args) :
          /\ iter_sum.args[k][1] = InputDim(l)
          /\ iter_sum.args[k][2] < 2
          /\ iter_sum.args[k][4] # iter_sum.args[k][2]

(* C11: VectorSize() returns at least 2 for a layout whose last output     *)
(* index is i*K + j with j the last input variable, of unit stride and of  *)
(* extent K divisible by 8, and returns 1 for a layout whose last output   *)
(* index holds a split of the last input variable below granularity 2      *)
(* whose scale differs from its lower factor.                              *)
C11_VectorSize ==
  (lastcall = "VectorSize" /\ (RowMajor(lay) \/ StrideBreaking(lay))) =>
     /\ lstatus = "ok"
     /\ RowMajor(lay) => lvector >= 2
     /\ StrideBreaking(lay) => lvector = 1

C11_Witness ==
  /\ lastcall = "VectorSize" /\ lstatus = "ok"
  /\ RowMajor(lay) /\ lay.forward_var = <<2, 8>> /\ lvector = 8

C11_WitnessBroken ==
  /\ lastcall = "VectorSize" /\ lstatus = "ok"
  /\ StrideBreaking(lay) /\ lay.forward_var = <<2, 8>> /\ OutputDim(lay) = 1 /\ lvector = 1

----------------------------------------------------------------------------
(* One call of a shared-memory Layout factory                              *)

Strides == {4, 6, 8, 32}

Continuous == {16, 24, 32, 64}

SharedElementSizes == {16, 32}

SharedArgs(name, stride, continuous, element_size) ==
  [name |-> name, stride |-> stride, continuous |-> continuous,
   element_size |-> element_size]

(* the factories that take an element size, and those that take none: the  *)
(* F64 factories lay out 64-bit elements, the Volta factories 16-bit ones  *)
SharedCalls ==
  { SharedArgs(name, st, ct, es) :
      name \in {"HalfBank", "FullBank", "Padded"},
      st \in Strides, ct \in Continuous, es \in SharedElementSizes }
  \cup { SharedArgs(name, st, ct, 64) :
           name \in {"F64_Kinner", "F64_Kouter"}, st \in Strides, ct \in Continuous }
  \cup { SharedArgs(name, st, ct, 16) :
           name \in {"VoltaCrosswise", "VoltaACongruous", "VoltaBCongruous"},
           st \in Strides, ct \in Continuous }

InitShared ==
  /\ sargs \in SharedCalls
  /\ sout = NoFragment
  /\ sstatus = "start"
  /\ FragIdle
  /\ GemmIdle
  /\ LayoutIdle
  /\ LoopIdle
  /\ XorIdle
  /\ InverseIdle

(* a factory call: the Layout when the ICHECKs pass, an abort otherwise *)
SharedCall(name, check, layout) ==
  /\ sstatus = "start"
  /\ sargs.name = name
  /\ UNCHANGED <<sargs, fvars, gvars, lvars, pvars, xvars, ivars>>
  /\ IF check
     THEN sout' = layout /\ sstatus' = "done"
     ELSE sout' = sout /\ sstatus' = "abort"

CallHalfBank ==
  SharedCall("HalfBank",
             makeGemmABLayoutHalfBankCheck(sargs.stride, sargs.continuous,
                                           sargs.element_size),
             makeGemmABLayoutHalfBank(sargs.stride, sargs.continuous,
                                      sargs.element_size))

CallFullBank ==
  SharedCall("FullBank",
             makeGemmABLayoutFullBankCheck(sargs.stride, sargs.continuous,
                                           sargs.element_size),
             makeGemmABLayoutFullBank(sargs.stride, sargs.continuous,
                                      sargs.element_size))

CallF64_Kinner ==
  SharedCall("F64_Kinner",
             makeGemmABLayoutF64Check(sargs.stride, sargs.continuous),
             makeGemmABLayoutF64_Kinner(sargs.stride, sargs.continuous))

CallF64_Kouter ==
  SharedCall("F64_Kouter",
             makeGemmABLayoutF64Check(sargs.stride, sargs.continuous),
             makeGemmABLayoutF64_Kouter(sargs.stride, sargs.continuous))

CallPadded ==
  SharedCall("Padded",
             makeGemmABLayoutPaddedCheck(sargs.stride, sargs.continuous,
                                         sargs.element_size),
             makeGemmABLayoutPadded(sargs.stride, sargs.continuous, sargs.element_size))

CallVoltaCrosswise ==
  SharedCall("VoltaCrosswise",
             MakeGemmVoltaABLayoutCrosswiseCheck(sargs.stride, sargs.continuous),
             MakeGemmVoltaABLayoutCrosswise(sargs.stride, sargs.continuous))

CallVoltaACongruous ==
  SharedCall("VoltaACongruous",
             MakeGemmVoltaLayoutCongruousCheck(sargs.stride, sargs.continuous),
             MakeGemmVoltaALayoutCongruous(sargs.stride, sargs.continuous))

CallVoltaBCongruous ==
  SharedCall("VoltaBCongruous",
             MakeGemmVoltaLayoutCongruousCheck(sargs.stride, sargs.continuous),
             MakeGemmVoltaBLayoutCongruous(sargs.stride, sargs.continuous))

NextShared ==
  \/ CallHalfBank
  \/ CallFullBank
  \/ CallF64_Kinner
  \/ CallF64_Kouter
  \/ CallPadded
  \/ CallVoltaCrosswise
  \/ CallVoltaACongruous
  \/ CallVoltaBCongruous

SpecShared == InitShared /\ [][NextShared]_vars

(* the tile granularity of each shape parameter: the multiples the factory *)
(* body divides and takes remainders by                                    *)
SharedGranularity(a) ==
  LET vector_size == 128 \div a.element_size
  IN CASE a.name = "HalfBank" -> <<8, vector_size * 4>>
       [] a.name = "FullBank" -> <<8, vector_size * 8>>
       [] a.name \in {"F64_Kinner", "F64_Kouter"} -> <<4, 16>>
       [] a.name = "Padded" -> <<1, 1>>
       [] a.name = "VoltaCrosswise" -> <<32, 32>>
       [] a.name \in {"VoltaACongruous", "VoltaBCongruous"} -> <<4, 64>>

SharedValid(a) ==
  /\ a.stride % SharedGranularity(a)[1] = 0
  /\ a.continuous % SharedGranularity(a)[2] = 0

(* C12 as stated, for the shared-memory Layout factories: a call whose     *)
(* stride or continuous is not a multiple of the tile granularity aborts   *)
(* and returns no Layout.  makeGemmABLayoutF64_Kinner and                  *)
(* makeGemmABLayoutF64_Kouter return one.                                  *)
C12_FactoriesAbort ==
  (sstatus \in {"done", "abort"} /\ ~SharedValid(sargs)) => sstatus = "abort"

----------------------------------------------------------------------------
(* One Repeat or Replicate call on a Fragment F, F a base Fragment or a    *)
(* derived one                                                             *)

(* what one Repeat call makes of f *)
RepeatsOf(f) ==
  { Repeat(f, repeats, repeat_on_thread, lower_dim_first) :
      repeats \in { c \in [1..InputDim(f) -> RepeatCounts] :
                      Points(f) * Prod(c) <= MaxPoints },
      repeat_on_thread \in { t \in BOOLEAN : RepeatCheck(f, f.forward_var, t) },
      lower_dim_first \in BOOLEAN }

(* what one Repeat or one Replicate makes of a base Fragment *)
DerivedFragments ==
  UNION { RepeatsOf(f) : f \in FragmentInputs }
  \cup { Replicate(f, n) : f \in FragmentInputs, n \in ReplicateCounts }

InitCall ==
  /\ frags \in { <<f>> : f \in FragmentInputs \cup DerivedFragments }
  /\ ops = <<>>
  /\ fstatus = "ok"
  /\ GemmIdle
  /\ LayoutIdle
  /\ LoopIdle
  /\ SharedIdle
  /\ XorIdle
  /\ InverseIdle

CallRepeat == ops = <<>> /\ RepeatOp

CallReplicate == ops = <<>> /\ ReplicateOp

NextCall == CallRepeat \/ CallReplicate

SpecCall == InitCall /\ [][NextCall]_vars

----------------------------------------------------------------------------
(* Repeat and Replicate, point by point                                    *)

(* the point of F under the point p of a repeated F: every coordinate      *)
(* reduced modulo its original extent, the replication value kept          *)
TilePoint(F, p) == [i \in 0..InputDim(F) |-> IF i = 0 THEN p[0] ELSE p[i] % InputShape(F)[i]]

(* the repeat index of p: the mixed-radix number of the tile coordinates   *)
(* p[i] div extent[i] in the radices c[i], the last dimension the least    *)
(* significant if lower_dim_first, the first otherwise                     *)
RECURSIVE TileIndex(_, _, _, _, _)
TileIndex(F, p, c, lower_dim_first, i) ==
  IF i = 0 THEN 0
  ELSE LET weight == IF lower_dim_first THEN Prod(SubSeq(c, i + 1, Len(c)))
                     ELSE Prod(SubSeq(c, 1, i - 1))
       IN (p[i] \div InputShape(F)[i]) * weight + TileIndex(F, p, c, lower_dim_first, i - 1)

(* C14: for F with thread extent T and counts c, G = F.Repeat(c, true)     *)
(* maps x to the data index of F at (x mod extents) and to the thread      *)
(* F.thread(x mod extents) + T * r, r the repeat index of x; the tile r    *)
(* lies in the threads [r*T, (r+1)*T) and ThreadExtent(G) = T * prod(c).   *)
(* G = F.Repeat(c, false), with OutputDim 1 and output extent E, maps x to *)
(* the thread F.thread(x mod extents) and to the data index                *)
(* F.index(x mod extents) + E * r.                                         *)
C14_RepeatPointwise ==
  \A k \in {Len(ops)} :
     (Applied(k) /\ ops[k].name = "Repeat") =>
       LET F == frags[k]
           G == frags[k + 1]
           c == ops[k].repeats
           r(p) == TileIndex(F, p, c, ops[k].lower_dim_first, InputDim(F))
           thread(f, p) == Eval(f.forward_thread, p)
       IN /\ InputShape(G) = [i \in 1..InputDim(F) |-> InputShape(F)[i] * c[i]]
          /\ ReplicateExtent(G) = ReplicateExtent(F)
          /\ IF ops[k].repeat_on_thread
             THEN LET T == ThreadExtent(F)
                  IN /\ ThreadExtentCheck(G)
                     /\ ThreadExtent(G) = T * Prod(c)
                     /\ \A p \in Envs(G.forward_var, G.thread_replicate) :
                          /\ OutputAt(G, p) = OutputAt(F, TilePoint(F, p))
                          /\ thread(G, p) = thread(F, TilePoint(F, p)) + T * r(p)
                          /\ thread(G, p) \in (r(p) * T)..((r(p) + 1) * T - 1)
             ELSE LET E == OutputShape(F)[1]
                  IN /\ OutputDim(F) = 1
                     /\ \A p \in Envs(G.forward_var, G.thread_replicate) :
                          /\ thread(G, p) = thread(F, TilePoint(F, p))
                          /\ OutputAt(G, p)[1] = OutputAt(F, TilePoint(F, p))[1] + E * r(p)

(* F repeated on the thread axis in two dimensions at once *)
C14_Witness ==
  \E k \in {Len(ops)} :
     /\ Applied(k) /\ ops[k].name = "Repeat" /\ ops[k].repeat_on_thread
     /\ InputDim(frags[k]) = 2 /\ Prod(ops[k].repeats) = 4
     /\ ThreadExtent(frags[k]) > 1

(* F repeated along its data index in two dimensions at once *)
C14_WitnessIndex ==
  \E k \in {Len(ops)} :
     /\ Applied(k) /\ ops[k].name = "Repeat" /\ ~ops[k].repeat_on_thread
     /\ InputDim(frags[k]) = 2 /\ Prod(ops[k].repeats) = 4
     /\ OutputShape(frags[k])[1] > 1

(* C15: for F with replicate extent R and thread extent T and n >= 1,      *)
(* G = F.Replicate(n) has ReplicateExtent n * R and ThreadExtent n * T,    *)
(* the input domain and the data indices of F, and maps (x, rep) to the    *)
(* thread F.thread(x, rep mod R) + T * (rep div R); the copy rep div R     *)
(* lies in the threads [q*T, (q+1)*T), so the n copies are disjoint.       *)
C15_ReplicatePointwise ==
  \A k \in {Len(ops)} :
     (Applied(k) /\ ops[k].name = "Replicate") =>
       LET F == frags[k]
           G == frags[k + 1]
           n == ops[k].n
           R == ReplicateExtent(F)
           T == ThreadExtent(F)
           below(p) == [i \in 0..InputDim(F) |-> IF i = 0 THEN p[0] % R ELSE p[i]]
       IN /\ ReplicateExtent(G) = n * R
          /\ ThreadExtentCheck(G)
          /\ ThreadExtent(G) = n * T
          /\ InputShape(G) = InputShape(F)
          /\ G.forward_index = F.forward_index
          /\ \A p \in Envs(G.forward_var, G.thread_replicate) :
               /\ Eval(G.forward_thread, p)
                    = Eval(F.forward_thread, below(p)) + T * (p[0] \div R)
               /\ Eval(G.forward_thread, p) \in ((p[0] \div R) * T)..((p[0] \div R + 1) * T - 1)

(* an already replicated F replicated again *)
C15_Witness ==
  \E k \in {Len(ops)} :
     /\ Applied(k) /\ ops[k].name = "Replicate"
     /\ ops[k].n > 1 /\ ReplicateExtent(frags[k]) > 1
     /\ ThreadExtent(frags[k]) > 1

----------------------------------------------------------------------------
(* FragmentNode::Inverse of one Fragment                                   *)

(* Fragments whose map is a bijection built from a sum modulo an extent *)
SkewedFragments ==
  { Fragment(<<2, 2>>, <<Var(1)>>, FloorMod(Add(Var(1), Var(2)), Const(2)), 1),
    Fragment(<<2>>, <<Var(1)>>, FloorMod(Add(Var(1), Var(0)), Const(2)), 2) }

(* the Fragments Inverse() is called on: the base Fragments, the 8x8 tile, *)
(* and the derived Fragments                                               *)
InverseInputs ==
  FragmentInputs
  \cup SkewedFragments
  \cup { makeGemmFragment8x8, makeGemmFragment8x8Transposed }
  \cup DerivedFragments

InitInverse ==
  /\ ifrag \in InverseInputs
  /\ iinv = NoFragment
  /\ istatus = "start"
  /\ FragIdle
  /\ GemmIdle
  /\ LayoutIdle
  /\ LoopIdle
  /\ SharedIdle
  /\ XorIdle

FragmentInverseOp ==
  /\ istatus = "start"
  /\ UNCHANGED <<ifrag, fvars, gvars, lvars, pvars, svars, xvars>>
  /\ IF FragmentInverseCheck(ifrag)
     THEN /\ iinv' = FragmentInverse(ifrag)
          /\ istatus' = "done"
     ELSE /\ iinv' = iinv
          /\ istatus' = "abort"

NextInverse == FragmentInverseOp

SpecInverse == InitInverse /\ [][NextInverse]_vars

(* the inverse Layout inv applied to the data indices and the thread id of *)
(* the point p of F gives back p: the inputs x and the replication value r *)
Recovers(F, inv, p) ==
  LET out == [k \in 0..(OutputDim(F) + 1) |->
                IF k = 0 THEN 0
                ELSE IF k <= OutputDim(F) THEN Eval(F.forward_index[k], p)
                ELSE Eval(F.forward_thread, p)]
  IN /\ InputDim(inv) = OutputDim(F) + 1
     /\ OutputDim(inv) = InputDim(F) + 1
     /\ \A i \in 1..InputDim(F) : Eval(inv.forward_index[i], out) = p[i]
     /\ Eval(inv.forward_index[InputDim(F) + 1], out) = p[0]

InverseRecovers ==
  /\ istatus = "done"
  /\ \A p \in Envs(ifrag.forward_var, ifrag.thread_replicate) : Recovers(ifrag, iinv, p)

(* C16 as stated: for every Fragment F whose map (inputs, replication      *)
(* value) -> (data indices, thread id) is bijective, F.Inverse() applied   *)
(* to the data indices and thread id of any (x, r) returns (x, r).         *)
(* F.Inverse() fails for the bijection (i, j) -> (i, (i + j) mod 2).       *)
C16_AsStated ==
  (istatus # "start" /\ Bijection(FragmentLayout(ifrag))) => InverseRecovers

(* C16 amended: for every Fragment F whose map (inputs, replication value) *)
(* -> (data indices, thread id) is bijective and is detected as a          *)
(* bijective affine iteration map, so that F.Inverse() does not fail,      *)
(* F.Inverse() applied to the data indices and thread id of any (x, r)     *)
(* returns (x, r).                                                         *)
C16_InverseRecovers ==
  (/\ istatus # "start"
   /\ Bijection(FragmentLayout(ifrag))
   /\ DetectIterMap(FragmentLayout(ifrag).forward_index,
                    FragmentLayout(ifrag).forward_var).ok) => InverseRecovers

(* a bijective replicated Fragment over two inputs, inverted *)
C16_Witness ==
  /\ istatus = "done"
  /\ Bijection(FragmentLayout(ifrag))
  /\ InputDim(ifrag) = 2 /\ ReplicateExtent(ifrag) > 1
  /\ ThreadExtent(ifrag) > ReplicateExtent(ifrag)

----------------------------------------------------------------------------
(* One call of xor2x2, xor4x4 or xor8x8, the expression returned taken at  *)
(* the values of its arguments                                             *)

XorArgs(name, i, j) == [name |-> name, i |-> i, j |-> j]

(* the arguments of each function: [0,2), [0,4) and [0,8) *)
XorRange(name) ==
  CASE name = "xor2x2" -> 0..1
    [] name = "xor4x4" -> 0..3
    [] name = "xor8x8" -> 0..7

InitXor ==
  /\ xargs \in UNION { { XorArgs(name, i, j) : i \in XorRange(name), j \in XorRange(name) } :
                         name \in {"xor2x2", "xor4x4", "xor8x8"} }
  /\ xout = 0
  /\ xstatus = "start"
  /\ FragIdle
  /\ GemmIdle
  /\ LayoutIdle
  /\ LoopIdle
  /\ SharedIdle
  /\ InverseIdle

CallXor2x2 ==
  /\ xstatus = "start"
  /\ xargs.name = "xor2x2"
  /\ xout' = Eval(xor2x2(Var(1), Var(2)), <<xargs.i, xargs.j>>)
  /\ xstatus' = "done"
  /\ UNCHANGED <<xargs, fvars, gvars, lvars, pvars, svars, ivars>>

CallXor4x4 ==
  /\ xstatus = "start"
  /\ xargs.name = "xor4x4"
  /\ xout' = Eval(xor4x4(Var(1), Var(2)), <<xargs.i, xargs.j>>)
  /\ xstatus' = "done"
  /\ UNCHANGED <<xargs, fvars, gvars, lvars, pvars, svars, ivars>>

CallXor8x8 ==
  /\ xstatus = "start"
  /\ xargs.name = "xor8x8"
  /\ xout' = Eval(xor8x8(Var(1), Var(2)), <<xargs.i, xargs.j>>)
  /\ xstatus' = "done"
  /\ UNCHANGED <<xargs, fvars, gvars, lvars, pvars, svars, ivars>>

NextXor == CallXor2x2 \/ CallXor4x4 \/ CallXor8x8

SpecXor == InitXor /\ [][NextXor]_vars

(* the bitwise exclusive or of two naturals *)
RECURSIVE BitXor(_, _)
BitXor(a, b) ==
  IF a = 0 /\ b = 0 THEN 0
  ELSE (IF a % 2 = b % 2 THEN 0 ELSE 1) + 2 * BitXor(a \div 2, b \div 2)

(* the values of the function name over every i of its range, j fixed *)
XorColumn(name, j) ==
  { Eval(CASE name = "xor2x2" -> xor2x2(Var(1), Var(2))
           [] name = "xor4x4" -> xor4x4(Var(1), Var(2))
           [] name = "xor8x8" -> xor8x8(Var(1), Var(2)),
         <<i, j>>) : i \in XorRange(name) }

(* C17: xor2x2, xor4x4 and xor8x8 return the bitwise XOR of their          *)
(* arguments for all arguments in [0,2), [0,4) and [0,8); for every fixed  *)
(* j the map i -> xor(i, j) takes every value of the range, so it is a     *)
(* permutation of it.                                                      *)
C17_XorIsBitwise ==
  xstatus = "done" =>
    /\ xout = BitXor(xargs.i, xargs.j)
    /\ XorColumn(xargs.name, xargs.j) = XorRange(xargs.name)

(* xor8x8 called with arguments that differ in all three bits but one *)
C17_Witness ==
  /\ xstatus = "done" /\ xargs = XorArgs("xor8x8", 5, 3) /\ xout = 6

(* no two points of the input domain of l share an output tuple *)
Injective(l) ==
  LET pts == Envs(l.forward_var, 1)
  IN Cardinality({ OutputAt(l, p) : p \in pts }) = Cardinality(pts)

(* C18: every shared-memory Layout factory called with valid parameters    *)
(* returns a Layout that is injective on [0, stride) x [0, continuous);    *)
(* the swizzled ones (all but makeGemmABLayoutPadded) are bijections onto  *)
(* the output box, which has stride * continuous points.                   *)
C18_FactoriesInjective ==
  (sstatus = "done" /\ SharedValid(sargs)) =>
    /\ InputShape(sout) = <<sargs.stride, sargs.continuous>>
    /\ Injective(sout)
    /\ sargs.name # "Padded" =>
         /\ Bijection(sout)
         /\ OutputShapeCheck(sout)
         /\ Prod(OutputShape(sout)) = sargs.stride * sargs.continuous

(* a swizzled Layout over more than one tile in each direction *)
C18_Witness ==
  /\ sstatus = "done" /\ sargs.name = "HalfBank" /\ SharedValid(sargs)
  /\ sargs.stride = 32 /\ sargs.continuous = 64 /\ sargs.element_size = 16

(* C19: for every parameter set makeGemmFragmentC accepts, the Fragment    *)
(* returned maps (i, j) in [0, block_m) x [0, block_n) bijectively onto    *)
(* [0, OutputShape[0]) x [0, ThreadExtent), with                           *)
(* ThreadExtent = 32 * (block_m / warp_m) * (block_n / warp_n) and         *)
(* OutputShape[0] * ThreadExtent = block_m * block_n.                      *)
C19_FragmentCBijective ==
  gstatus = "done" =>
    /\ InputShape(gout) = <<gargs.block_m, gargs.block_n>>
    /\ ReplicateExtent(gout) = 1
    /\ OutputDim(gout) = 1
    /\ Bijection(FragmentLayout(gout))
    /\ ThreadExtentCheck(gout)
    /\ ThreadExtent(gout)
         = 32 * (gargs.block_m \div gargs.warp_m) * (gargs.block_n \div gargs.warp_n)
    /\ OutputShapeCheck(gout)
    /\ OutputShape(gout)[1] * ThreadExtent(gout) = gargs.block_m * gargs.block_n

(* a 64-bit tile of two warps by one, each warp tile 32 x 16 *)
C19_Witness ==
  /\ gstatus = "done"
  /\ gargs = GemmArgs(64, 16, 32, 16, 64)
  /\ ThreadExtent(gout) = 64

(* the warps of f: <<x1, x2, w>> for every point (x1, x2) of the input     *)
(* domain and every warp w = thread id div 32 that holds it, over all      *)
(* replication values                                                      *)
WarpsOf(f) ==
  { <<p[1], p[2], Eval(f.forward_thread, p) \div 32>> :
      p \in Envs(f.forward_var, f.thread_replicate) }

(* C20: for parameters that makeGemmFragmentA, makeGemmFragmentB and       *)
(* makeGemmFragmentC (16-bit) all accept, and every m, n, k in range, the  *)
(* warp that holds C[m][n] is one of the warps that hold A[m][k] and one   *)
(* of the warps that hold B[k][n], over all replication values.            *)
C20_WarpOwnsOperands ==
  (gstatus = "done" /\ gstatusA = "done" /\ gstatusB = "done"
     /\ gargs.element_size = 16) =>
    LET A == WarpsOf(goutA)
        B == WarpsOf(goutB)
        C == WarpsOf(gout)
    IN /\ InputShape(gout) = <<gargs.block_m, gargs.block_n>>
       /\ InputShape(goutA) = <<gargs.block_m, gblock_k>>
       /\ InputShape(goutB) = <<gblock_k, gargs.block_n>>
       /\ \A c \in C : \A k \in 0..(gblock_k - 1) :
            /\ <<c[1], k, c[3]>> \in A
            /\ <<k, c[2], c[3]>> \in B

(* two warps along m and two along n, each C element on one warp of four *)
C20_Witness ==
  /\ gstatus = "done" /\ gstatusA = "done" /\ gstatusB = "done"
  /\ gargs = GemmArgs(32, 32, 16, 16, 16) /\ gblock_k = 16
  /\ ThreadExtent(gout) = 128
  /\ ReplicateExtent(goutA) = 2 /\ ReplicateExtent(goutB) = 2

----------------------------------------------------------------------------
(* One DeReplicate call on a Fragment F, F a base Fragment, a skewed one   *)
(* or a derived one                                                        *)

InitDeReplicate ==
  /\ frags \in { <<f>> : f \in FragmentInputs \cup SkewedFragments \cup DerivedFragments }
  /\ ops = <<>>
  /\ fstatus = "ok"
  /\ GemmIdle
  /\ LayoutIdle
  /\ LoopIdle
  /\ SharedIdle
  /\ XorIdle
  /\ InverseIdle

CallDeReplicate == ops = <<>> /\ DeReplicateOp

SpecDeReplicate == InitDeReplicate /\ [][CallDeReplicate]_vars

(* <<data index, thread id>> of the point p of f *)
Assignment(f, p) == <<Eval(f.forward_index[1], p), Eval(f.forward_thread, p)>>

(* no two points (inputs, replication value) of f share a data index and a *)
(* thread id                                                               *)
AssignmentInjective(f) ==
  LET pts == Envs(f.forward_var, f.thread_replicate)
  IN Cardinality({ Assignment(f, p) : p \in pts }) = Cardinality(pts)

(* C21: for every Fragment F with OutputDim()==1 whose map (inputs,        *)
(* replication value) -> (data index, thread id) is injective, the map of  *)
(* F.DeReplicate() is injective too: no two distinct input elements land   *)
(* on the same thread at the same data index.                              *)
(* F = Fragment({i in [0,2)}, {i}, (i + rep) mod 2, rep in [0,2)) is       *)
(* injective; F.DeReplicate() sends i = 0 and i = 1 both to data index 0   *)
(* of thread 0.                                                            *)
C21_DeReplicateInjective ==
  (Len(frags) = 2 /\ ops[1].name = "DeReplicate" /\ AssignmentInjective(frags[1]))
    => AssignmentInjective(frags[2])
====
